---- MODULE Spec2Model ----
(***************************************************************************)
(* Model of the municipal-procedures RAG backend: the ingestion pipeline   *)
(* (PDFProcessor), the document type detector, the text chunker, the batch *)
(* embedding loop and the query orchestrator (RAGService), running as      *)
(* coroutines on one asyncio event loop over one external store.           *)
(*                                                                         *)
(* Python str values are TLA+ strings; TLC evaluates Len, SubSeq, Head,    *)
(* Tail and \o on them.                                                    *)
(***************************************************************************)
EXTENDS Integers, Sequences, FiniteSets, TLC

(***************************************************************************)
(* Python str primitives                                                   *)
(***************************************************************************)
Char(s, i) == SubSeq(s, i, i)

InStr(c, set) == \E i \in 1..Len(set) : Char(set, i) = c

Whitespace == {" ", "\n", "\t", "\r", "\f"}

IsSpace(c) == c \in Whitespace

IsDigit(c) == InStr(c, "0123456789")

UpperChars == "ABCDEFGHIJKLMNOPQRSTUVWXYZÁÉÍÓÚÑÜ"

LowerChars == "abcdefghijklmnopqrstuvwxyzáéíóúñü"

\* \w of the re module: letters, digits and the underscore
IsWord(c) == InStr(c, UpperChars) \/ InStr(c, LowerChars) \/ IsDigit(c) \/ c = "_"

LowerChar(c) ==
    IF InStr(c, UpperChars)
    THEN Char(LowerChars, CHOOSE i \in 1..Len(UpperChars) : Char(UpperChars, i) = c)
    ELSE c

RECURSIVE lower(_)
lower(s) == IF s = "" THEN "" ELSE LowerChar(Head(s)) \o lower(Tail(s))

RECURSIVE lstrip(_)
lstrip(s) == IF s # "" /\ IsSpace(Head(s)) THEN lstrip(Tail(s)) ELSE s

RECURSIVE rstrip(_)
rstrip(s) ==
    IF s # "" /\ IsSpace(Char(s, Len(s))) THEN rstrip(SubSeq(s, 1, Len(s) - 1)) ELSE s

strip(s) == rstrip(lstrip(s))

\* sub in s
In(sub, s) == \E i \in 1..(Len(s) - Len(sub) + 1) : SubSeq(s, i, i + Len(sub) - 1) = sub

\* any(keyword in s for keyword in keywords)
AnyIn(keywords, s) == \E k \in 1..Len(keywords) : In(keywords[k], s)

\* sep.join(parts)
RECURSIVE join(_, _)
join(sep, parts) ==
    IF parts = <<>> THEN ""
    ELSE IF Len(parts) = 1 THEN parts[1]
    ELSE parts[1] \o sep \o join(sep, Tail(parts))

\* first index >= i whose character is not whitespace (Len(s) + 1 when none)
RECURSIVE SkipSpace(_, _)
SkipSpace(s, i) == IF i <= Len(s) /\ IsSpace(Char(s, i)) THEN SkipSpace(s, i + 1) ELSE i

RECURSIVE SkipDigits(_, _)
SkipDigits(s, i) == IF i <= Len(s) /\ IsDigit(Char(s, i)) THEN SkipDigits(s, i + 1) ELSE i

RECURSIVE SkipWord(_, _)
SkipWord(s, i) == IF i <= Len(s) /\ IsWord(Char(s, i)) THEN SkipWord(s, i + 1) ELSE i

Max(S) == CHOOSE m \in S : \A k \in S : k <= m

(***************************************************************************)
(* re.findall / re.split over the non-overlapping leftmost matches of a    *)
(* pattern.  A match is <<start, end>>, end exclusive; the ...MatchEnd     *)
(* operators give the index after the match that starts at i, or 0 when    *)
(* the pattern does not match at i.                                        *)
(***************************************************************************)
re_findall(ms, s) == [k \in 1..Len(ms) |-> SubSeq(s, ms[k][1], ms[k][2] - 1)]

re_split(ms, s) ==
    [k \in 1..(Len(ms) + 1) |->
        SubSeq(s,
               IF k = 1 THEN 1 ELSE ms[k - 1][2],
               IF k = Len(ms) + 1 THEN Len(s) ELSE ms[k][1] - 1)]

(***************************************************************************)
(* DocumentTypeDetector                                                    *)
(***************************************************************************)
_detect_form(filename, text) ==
    LET r == IF In("bodega", filename) \/ In("bodega", text)
             THEN [tramite  |-> "Licencia Provisional de Funcionamiento para Bodegas",
                   keywords |-> <<"formulario", "bodega", "licencia", "provisional">>]
             ELSE IF In("ambulatorio", filename) \/ In("ambulatorio", text)
             THEN [tramite  |-> "Autorización de Comercio Ambulatorio",
                   keywords |-> <<"formulario", "ambulante", "comercio", "calle", "permiso">>]
             ELSE IF In("licencia", filename) \/ In("funcionamiento", filename)
             THEN [tramite  |-> "Licencia de Funcionamiento",
                   keywords |-> <<"formulario", "licencia", "funcionamiento", "comercio">>]
             ELSE [tramite  |-> "Formulario General",
                   keywords |-> <<"formulario">>]
    IN  [type     |-> "formulario",
         category |-> "comercio",
         metadata |-> [nombre_tramite |-> r.tramite, palabras_clave |-> r.keywords]]

_detect_law(filename, text) ==
    LET r == IF In("27972", filename) \/ In("municipalidades", filename)
             THEN [nombre   |-> "Ley Orgánica de Municipalidades",
                   numero   |-> "27972",
                   keywords |-> <<"ley", "normativa", "artículos", "municipalidades", "orgánica">>]
             ELSE IF In("1200", filename)
             THEN [nombre   |-> "Decreto Legislativo 1200",
                   numero   |-> "1200",
                   keywords |-> <<"ley", "normativa", "artículos">>]
             ELSE [nombre   |-> "Ley",
                   numero   |-> "",
                   keywords |-> <<"ley", "normativa", "artículos">>]
    IN  [type     |-> "ley",
         category |-> "normativa",
         metadata |-> [nombre_norma   |-> r.nombre,
                       numero_norma   |-> r.numero,
                       palabras_clave |-> r.keywords]]

\* mutant of detect: the law rule is tried before the form rule
detect_law_first(filename, text) ==
    LET filename_lower == lower(filename)
        text_lower     == lower(text)
    IN  IF In("ley", filename_lower) \/ In("ley n°", text_lower) \/ In("ley nº", text_lower)
        THEN _detect_law(filename_lower, text_lower)
        ELSE IF AnyIn(<<"formato", "formulario", "solicitud">>, filename_lower)
        THEN _detect_form(filename_lower, text_lower)
        ELSE IF In("ordenanza", filename_lower) \/ In("ordenanza", text_lower)
        THEN [type |-> "ordenanza", category |-> "normativa",
              metadata |-> [palabras_clave |-> <<"ordenanza", "municipalidad", "normativa">>]]
        ELSE IF In("decreto", filename_lower) \/ In("decreto", text_lower)
        THEN [type |-> "decreto", category |-> "normativa",
              metadata |-> [palabras_clave |-> <<"decreto", "alcaldía", "municipalidad">>]]
        ELSE IF In("reglamento", filename_lower) \/ In("reglamento", text_lower)
        THEN [type |-> "reglamento", category |-> "normativa",
              metadata |-> [palabras_clave |-> <<"reglamento", "normativa">>]]
        ELSE IF In("triptico", filename_lower) \/ In("guia", filename_lower)
        THEN [type |-> "guia", category |-> "informacion",
              metadata |-> [palabras_clave |-> <<"información", "guía", "trámite">>]]
        ELSE [type |-> "documento_general", category |-> "general",
              metadata |-> [palabras_clave |-> <<"documento", "municipal">>]]

detect(filename, text) ==
    LET filename_lower == lower(filename)
        text_lower     == lower(text)
    IN  IF AnyIn(<<"formato", "formulario", "solicitud">>, filename_lower)
        THEN _detect_form(filename_lower, text_lower)
        ELSE IF In("ley", filename_lower) \/ In("ley n°", text_lower) \/ In("ley nº", text_lower)
        THEN _detect_law(filename_lower, text_lower)
        ELSE IF In("ordenanza", filename_lower) \/ In("ordenanza", text_lower)
        THEN [type |-> "ordenanza", category |-> "normativa",
              metadata |-> [palabras_clave |-> <<"ordenanza", "municipalidad", "normativa">>]]
        ELSE IF In("decreto", filename_lower) \/ In("decreto", text_lower)
        THEN [type |-> "decreto", category |-> "normativa",
              metadata |-> [palabras_clave |-> <<"decreto", "alcaldía", "municipalidad">>]]
        ELSE IF In("reglamento", filename_lower) \/ In("reglamento", text_lower)
        THEN [type |-> "reglamento", category |-> "normativa",
              metadata |-> [palabras_clave |-> <<"reglamento", "normativa">>]]
        ELSE IF In("triptico", filename_lower) \/ In("guia", filename_lower)
        THEN [type |-> "guia", category |-> "informacion",
              metadata |-> [palabras_clave |-> <<"información", "guía", "trámite">>]]
        ELSE [type |-> "documento_general", category |-> "general",
              metadata |-> [palabras_clave |-> <<"documento", "municipal">>]]

(***************************************************************************)
(* TextChunker                                                             *)
(***************************************************************************)
\* (?:ART[ÍI]CULO\s+\d+[º°]?\s*\.?\s*-) with re.IGNORECASE, matched at index i
ArticleMatchEnd(text, i) ==
    LET n == Len(text)
        a == i + 8
        b == SkipSpace(text, a)
        c == SkipDigits(text, b)
        d == IF c <= n /\ Char(text, c) \in {"º", "°"} THEN c + 1 ELSE c
        e == SkipSpace(text, d)
        f == IF e <= n /\ Char(text, e) = "." THEN e + 1 ELSE e
        g == SkipSpace(text, f)
    IN  IF /\ i + 7 <= n
           /\ lower(SubSeq(text, i, i + 2)) = "art"
           /\ lower(Char(text, i + 3)) \in {"í", "i"}
           /\ lower(SubSeq(text, i + 4, i + 7)) = "culo"
           /\ b > a
           /\ c > b
           /\ g <= n
           /\ Char(text, g) = "-"
        THEN g + 1
        ELSE 0

RECURSIVE ArticleMatches(_, _)
ArticleMatches(text, pos) ==
    IF pos > Len(text) THEN <<>>
    ELSE LET e == ArticleMatchEnd(text, pos)
         IN  IF e > 0 THEN <<(<<pos, e>>)>> \o ArticleMatches(text, e)
             ELSE ArticleMatches(text, pos + 1)

_chunk_by_articles(text) ==
    LET ms      == ArticleMatches(text, 1)
        parts   == re_split(ms, text)
        matches == re_findall(ms, text)
        chunk(i) == strip(matches[i] \o parts[i + 1])
    IN  SelectSeq([i \in 1..Len(matches) |-> chunk(i)], LAMBDA c : c # "")

\* (?<=[.!?])\s+ matched at index i
SentenceBreakEnd(text, i) ==
    IF i >= 2 /\ i <= Len(text) /\ IsSpace(Char(text, i)) /\ Char(text, i - 1) \in {".", "!", "?"}
    THEN SkipSpace(text, i)
    ELSE 0

RECURSIVE SentenceBreaks(_, _)
SentenceBreaks(text, pos) ==
    IF pos > Len(text) THEN <<>>
    ELSE LET e == SentenceBreakEnd(text, pos)
         IN  IF e > 0 THEN <<(<<pos, e>>)>> \o SentenceBreaks(text, e)
             ELSE SentenceBreaks(text, pos + 1)

\* the loop of _split_by_sentences from sentence k on; st = [chunks, current_chunk, current_size]
RECURSIVE SentenceLoop(_, _, _, _)
SentenceLoop(sentences, k, max_size, st) ==
    IF k > Len(sentences)
    THEN IF st.current_chunk # <<>>
         THEN Append(st.chunks, join(" ", st.current_chunk))
         ELSE st.chunks
    ELSE LET sentence      == sentences[k]
             sentence_size == Len(sentence)
             flushed       == IF st.current_chunk # <<>>
                              THEN [chunks        |-> Append(st.chunks, join(" ", st.current_chunk)),
                                    current_chunk |-> <<>>,
                                    current_size  |-> 0]
                              ELSE st
         IN  IF sentence_size > max_size
             THEN SentenceLoop(sentences, k + 1, max_size,
                     [flushed EXCEPT !.chunks =
                         (flushed.chunks \o <<SubSeq(sentence, 1, max_size)>>)
                         \o (IF Len(sentence) > max_size
                             THEN <<SubSeq(sentence, max_size + 1, Len(sentence))>>
                             ELSE <<>>)])
             ELSE IF st.current_size + sentence_size > max_size /\ st.current_chunk # <<>>
             THEN SentenceLoop(sentences, k + 1, max_size,
                     [chunks        |-> Append(st.chunks, join(" ", st.current_chunk)),
                      current_chunk |-> <<sentence>>,
                      current_size  |-> sentence_size])
             ELSE SentenceLoop(sentences, k + 1, max_size,
                     [st EXCEPT !.current_chunk = Append(st.current_chunk, sentence),
                                !.current_size  = st.current_size + sentence_size])

\* mutant of _split_by_sentences: a paragraph that is too long is cut at max_size
_split_by_sentences_cut(text, max_size) ==
    <<SubSeq(text, 1, IF max_size < Len(text) THEN max_size ELSE Len(text))>>

_split_by_sentences(text, max_size) ==
    LET sentences == re_split(SentenceBreaks(text, 1), text)
    IN  SentenceLoop(sentences, 1, max_size,
                     [chunks |-> <<>>, current_chunk |-> <<>>, current_size |-> 0])

\* \n\s*\n matched at index i: from a newline to the last newline of the whitespace run
ParagraphBreakEnd(text, i) ==
    IF i <= Len(text) /\ Char(text, i) = "\n"
    THEN LET w  == SkipSpace(text, i + 1)
             nl == {k \in (i + 1)..(w - 1) : Char(text, k) = "\n"}
         IN  IF nl = {} THEN 0 ELSE Max(nl) + 1
    ELSE 0

RECURSIVE ParagraphBreaks(_, _)
ParagraphBreaks(text, pos) ==
    IF pos > Len(text) THEN <<>>
    ELSE LET e == ParagraphBreakEnd(text, pos)
         IN  IF e > 0 THEN <<(<<pos, e>>)>> \o ParagraphBreaks(text, e)
             ELSE ParagraphBreaks(text, pos + 1)

\* history of the loop: the chunk at index `at` was closed holding the paragraphs `held`
\* when the paragraph `next` came, because it would overflow or because it is oversized
Closed(st, why, next) ==
    Append(st.closed, [at |-> Len(st.chunks) + 1, held |-> st.current_chunk,
                       why |-> why, next |-> next])

\* mutant of ParagraphLoop: the last paragraph is never carried over
RECURSIVE ParagraphLoop_no_carry(_, _, _, _)
ParagraphLoop_no_carry(paragraphs, k, max_chunk_size, st) ==
    IF k > Len(paragraphs)
    THEN IF st.current_chunk # <<>>
         THEN [st EXCEPT !.chunks = Append(st.chunks, join("\n\n", st.current_chunk))]
         ELSE st
    ELSE LET paragraph      == paragraphs[k]
             paragraph_size == Len(paragraph)
             flushed        == IF st.current_chunk # <<>>
                               THEN [chunks        |-> Append(st.chunks, join("\n\n", st.current_chunk)),
                                     current_chunk |-> <<>>,
                                     current_size  |-> 0,
                                     closed        |-> Closed(st, "oversized", paragraph)]
                               ELSE st
         IN  IF paragraph_size > max_chunk_size
             THEN ParagraphLoop_no_carry(paragraphs, k + 1, max_chunk_size,
                     [flushed EXCEPT !.chunks =
                         flushed.chunks \o _split_by_sentences(paragraph, max_chunk_size)])
             ELSE IF st.current_size + paragraph_size > max_chunk_size /\ st.current_chunk # <<>>
             THEN ParagraphLoop_no_carry(paragraphs, k + 1, max_chunk_size,
                     [chunks        |-> Append(st.chunks, join("\n\n", st.current_chunk)),
                      current_chunk |-> <<paragraph>>,
                      current_size  |-> paragraph_size,
                      closed        |-> Closed(st, "overflow", paragraph)])
             ELSE ParagraphLoop_no_carry(paragraphs, k + 1, max_chunk_size,
                     [st EXCEPT !.current_chunk = Append(st.current_chunk, paragraph),
                                !.current_size  = st.current_size + paragraph_size])

\* the loop of _chunk_by_paragraphs from paragraph k on; st = [chunks, current_chunk,
\* current_size] and the history closed
RECURSIVE ParagraphLoop(_, _, _, _)
ParagraphLoop(paragraphs, k, max_chunk_size, st) ==
    IF k > Len(paragraphs)
    THEN IF st.current_chunk # <<>>
         THEN [st EXCEPT !.chunks = Append(st.chunks, join("\n\n", st.current_chunk))]
         ELSE st
    ELSE LET paragraph      == paragraphs[k]
             paragraph_size == Len(paragraph)
             flushed        == IF st.current_chunk # <<>>
                               THEN [chunks        |-> Append(st.chunks, join("\n\n", st.current_chunk)),
                                     current_chunk |-> <<>>,
                                     current_size  |-> 0,
                                     closed        |-> Closed(st, "oversized", paragraph)]
                               ELSE st
         IN  IF paragraph_size > max_chunk_size
             THEN ParagraphLoop(paragraphs, k + 1, max_chunk_size,
                     [flushed EXCEPT !.chunks =
                         flushed.chunks \o _split_by_sentences(paragraph, max_chunk_size)])
             ELSE IF st.current_size + paragraph_size > max_chunk_size /\ st.current_chunk # <<>>
             THEN ParagraphLoop(paragraphs, k + 1, max_chunk_size,
                     IF Len(st.current_chunk) > 1
                     THEN [chunks        |-> Append(st.chunks, join("\n\n", st.current_chunk)),
                           current_chunk |-> <<st.current_chunk[Len(st.current_chunk)], paragraph>>,
                           current_size  |-> Len(st.current_chunk[Len(st.current_chunk)])
                                             + paragraph_size,
                           closed        |-> Closed(st, "overflow", paragraph)]
                     ELSE [chunks        |-> Append(st.chunks, join("\n\n", st.current_chunk)),
                           current_chunk |-> <<paragraph>>,
                           current_size  |-> paragraph_size,
                           closed        |-> Closed(st, "overflow", paragraph)])
             ELSE ParagraphLoop(paragraphs, k + 1, max_chunk_size,
                     [st EXCEPT !.current_chunk = Append(st.current_chunk, paragraph),
                                !.current_size  = st.current_size + paragraph_size])

\* the state the loop of _chunk_by_paragraphs ends in
ParagraphLoopEnd(text, max_chunk_size) ==
    LET parts      == re_split(ParagraphBreaks(text, 1), text)
        stripped   == [k \in 1..Len(parts) |-> strip(parts[k])]
        paragraphs == SelectSeq(stripped, LAMBDA p : p # "")
    IN  ParagraphLoop(paragraphs, 1, max_chunk_size,
                      [chunks |-> <<>>, current_chunk |-> <<>>, current_size |-> 0,
                       closed |-> <<>>])

_chunk_by_paragraphs(text, max_chunk_size, overlap) ==
    LET parts      == re_split(ParagraphBreaks(text, 1), text)
        stripped   == [k \in 1..Len(parts) |-> strip(parts[k])]
        paragraphs == SelectSeq(stripped, LAMBDA p : p # "")
        chunks     == ParagraphLoopEnd(text, max_chunk_size).chunks
    IN  IF paragraphs = <<>> THEN <<text>>
        ELSE IF chunks # <<>> THEN chunks ELSE <<text>>

\* mutant of chunk_text: the small-document strategy also for legal types
chunk_text_small_first(text, document_type, num_pages, chunk_size, overlap) ==
    IF num_pages <= 5
    THEN <<text>>
    ELSE IF /\ document_type \in {"ley", "ordenanza", "decreto", "reglamento"}
            /\ Len(_chunk_by_articles(text)) > 1
    THEN _chunk_by_articles(text)
    ELSE _chunk_by_paragraphs(text, chunk_size, overlap)

\* mutant of chunk_text: a single article is enough for the article strategy
chunk_text_any_article(text, document_type, num_pages, chunk_size, overlap) ==
    IF num_pages <= 5 /\ document_type \in {"formulario", "guia", "documento_general"}
    THEN <<text>>
    ELSE IF /\ document_type \in {"ley", "ordenanza", "decreto", "reglamento"}
            /\ Len(_chunk_by_articles(text)) > 0
    THEN _chunk_by_articles(text)
    ELSE _chunk_by_paragraphs(text, chunk_size, overlap)

chunk_text(text, document_type, num_pages, chunk_size, overlap) ==
    IF num_pages <= 5 /\ document_type \in {"formulario", "guia", "documento_general"}
    THEN <<text>>
    ELSE IF /\ document_type \in {"ley", "ordenanza", "decreto", "reglamento"}
            /\ Len(_chunk_by_articles(text)) > 1
    THEN _chunk_by_articles(text)
    ELSE _chunk_by_paragraphs(text, chunk_size, overlap)

(***************************************************************************)
(* PDF text extraction                                                     *)
(***************************************************************************)
\* re.sub(r'(\w+)-\n(\w+)', r'\1\2', text): the scan resumes after the second word
RECURSIVE DehyphenateFrom(_, _, _)
DehyphenateFrom(text, pos, scan) ==
    \* pos: next index to copy; scan: index from which a match may start
    IF pos > Len(text) THEN ""
    ELSE IF /\ Char(text, pos) = "-"
            /\ pos + 2 <= Len(text)
            /\ Char(text, pos + 1) = "\n"
            /\ IsWord(Char(text, pos + 2))
            /\ pos - 1 >= scan
            /\ IsWord(Char(text, pos - 1))
    THEN LET e == SkipWord(text, pos + 2)
         IN  SubSeq(text, pos + 2, e - 1) \o DehyphenateFrom(text, e, e)
    ELSE Char(text, pos) \o DehyphenateFrom(text, pos + 1, scan)

\* re.sub(r'\s+', ' ', text)
RECURSIVE CollapseSpace(_, _)
CollapseSpace(text, pos) ==
    IF pos > Len(text) THEN ""
    ELSE IF IsSpace(Char(text, pos))
    THEN " " \o CollapseSpace(text, SkipSpace(text, pos))
    ELSE Char(text, pos) \o CollapseSpace(text, pos + 1)

\* mutant of _clean_text: whitespace runs are kept as they are
_clean_text_no_collapse(text) == strip(DehyphenateFrom(text, 1, 1))

_clean_text(text) == strip(CollapseSpace(DehyphenateFrom(text, 1, 1), 1))

\* PdfReader(file_path).pages, each page's extract_text(): the files on disk
PdfPages(file_path) ==
    CASE file_path = "docs/ley_27972.pdf" -> <<"ARTICULO 1.- Objeto.\n", "ARTICULO 2.- Alcan-\nce.">>
      [] file_path = "tmp/copia.pdf"      -> <<"ARTICULO 1.- Objeto.\n", "ARTICULO 2.- Alcan-\nce.">>
      [] file_path = "docs/guia.pdf"      -> <<"Paso uno.  Paso dos.", "">>

\* text, len(reader.pages) of _extract_text_from_pdf when the parser reads the file
_extract_text_from_pdf(file_path) ==
    LET pages      == PdfPages(file_path)
        text_parts == SelectSeq(pages, LAMBDA page_text : page_text # "")
    IN  [text |-> _clean_text(join("\n\n", text_parts)), num_pages |-> Len(pages)]

\* the raw bytes of the files on disk
FileBytes(file_path) ==
    CASE file_path = "docs/ley_27972.pdf" -> "%PDF ley 27972"
      [] file_path = "tmp/copia.pdf"      -> "%PDF ley 27972"
      [] file_path = "docs/guia.pdf"      -> "%PDF guia"

\* hashlib.sha256 over the file's bytes: equal bytes, equal digest
calculate_file_hash(file_path) == "sha256(" \o FileBytes(file_path) \o ")"

\* os.path.getsize
getsize(file_path) == Len(FileBytes(file_path))

\* os.path.basename
RECURSIVE basename(_)
basename(path) ==
    IF In("/", path) THEN basename(Tail(path)) ELSE path

(***************************************************************************)
(* Configuration and the bounds of the model                               *)
(***************************************************************************)
RAG_CHUNK_SIZE == 1000

RAG_CHUNK_OVERLAP == 200

RAG_TOP_K_RESULTS == 5

\* 0.4
RAG_SIMILARITY_THRESHOLD == "0.4"

\* process_pdf calls submitted in one behaviour (single requests and batch entries)
MaxCalls == 2

\* queries submitted in one behaviour
MaxQueries == 1

\* responses of the /stats handler and of the exception handler in one behaviour
MaxHttp == 1

\* handler runs that use a singleton accessor in one behaviour
MaxUses == 4

Tasks == 1..MaxCalls

Paths == {"docs/ley_27972.pdf", "tmp/copia.pdf", "docs/guia.pdf"}

\* Optional[...] values: None, or the value wrapped
None == <<>>

Some(v) == <<v>>

\* the /process-pdf requests: a file, the name to record for it, and the optional
\* category override
PdfRequests ==
    {[file_path |-> "docs/ley_27972.pdf", filename |-> "ley_27972.pdf", category |-> None],
     [file_path |-> "tmp/copia.pdf", filename |-> "copia.pdf", category |-> Some("tramites")],
     [file_path |-> "docs/guia.pdf", filename |-> "guia.pdf", category |-> None]}

\* the lists of at most n paths
RECURSIVE PathLists(_)
PathLists(n) ==
    IF n = 0 THEN {<<>>}
    ELSE PathLists(n - 1) \cup {Append(l, p) : l \in {x \in PathLists(n - 1) : Len(x) = n - 1}, p \in Paths}

\* the file_paths a /process-batch request carries: no file, or several (a batch of
\* one file runs the loop body once, as the first file of a longer batch does)
BatchLists == {l \in PathLists(MaxCalls) : Len(l) # 1}

(***************************************************************************)
(* State                                                                   *)
(*   documents, document_chunks : the two tables of the external store,    *)
(*                                in insertion order                       *)
(*   tasks   : the ingestion requests, each a coroutine with its locals    *)
(*   queries : the /query requests, each a coroutine with its locals       *)
(*   running : the task the event loop is running (0: the loop is idle and *)
(*             every started task is suspended at an await); ingestion     *)
(*             task t runs as t, query q as MaxCalls + q                   *)
(*   settings : the Settings object, loaded from the environment           *)
(*   http_responses : the responses sent by the /stats handler and by the  *)
(*             application's exception handler                             *)
(*   chunker : a call of TextChunker on its own: its arguments and, once   *)
(*             it has returned, the segments                               *)
(*   detector : a call of DocumentTypeDetector.detect on its own: its      *)
(*             arguments and, once it has returned, the result             *)
(*   handles : the module-level singleton handles _embedding_service,      *)
(*             _rag_service and _pdf_processor, with the history of the    *)
(*             objects constructed and of the uses of the accessors        *)
(***************************************************************************)
VARIABLES documents, document_chunks, tasks, queries, running, settings, http_responses,
          chunker, detector, handles

vars == <<documents, document_chunks, tasks, queries, running, settings, http_responses,
          chunker, detector, handles>>

QueryIds == 1..MaxQueries

QueryTask(q) == MaxCalls + q

\* ProcessingStatus(document_id="", filename=filename, status=PROCESSING, progress=0)
NewStatus(filename) ==
    [document_id    |-> "",
     filename       |-> filename,
     status         |-> "processing",
     progress       |-> 0,
     chunks_created |-> None,
     error_message  |-> None]

NoDocInfo == [type |-> "", category |-> "", metadata |-> <<>>]

IdleTask ==
    [kind       |-> "none",
     pc         |-> "idle",
     \* the request
     file_paths |-> <<>>,
     category   |-> None,
     \* process_multiple_pdfs: the for loop's position and the list it builds
     k          |-> 0,
     results    |-> <<>>,
     response   |-> None,
     \* process_pdf's arguments and locals
     file_path  |-> "",
     filename   |-> "",
     status     |-> NewStatus(""),
     text       |-> "",
     num_pages  |-> 0,
     doc_info   |-> NoDocInfo,
     file_hash  |-> "",
     file_size  |-> 0,
     document_id |-> "",
     chunks     |-> <<>>,
     \* generate_batch_embeddings' locals
     i          |-> 0,
     embeddings |-> <<>>,
     \* history of the call in progress: the steps it ran, the step that raised,
     \* the embedding requests it issued, the store when it started
     steps          |-> <<>>,
     failed_at      |-> None,
     embed_requests |-> <<>>,
     pre_documents  |-> <<>>,
     pre_chunks     |-> <<>>]

IdleQuery ==
    [pc              |-> "idle",
     \* RAGService.query's argument and locals
     query           |-> "",
     query_embedding |-> "",
     chunks          |-> <<>>,
     context         |-> "",
     response        |-> None,
     \* history: the requests made to the embedding provider, to the similarity search
     \* and to the generative model, and the rows each search returned
     embed_calls     |-> <<>>,
     search_calls    |-> <<>>,
     search_rows     |-> <<>>,
     generate_calls  |-> <<>>,
     \* history: the texts the generative model returned, the errors raised in the call
     generated       |-> <<>>,
     raised          |-> <<>>]

\* class Settings: DEBUG: bool = True
\* _embedding_service = None; _rag_service = None; _pdf_processor = None, with the
\* history of the objects constructed and of the handlers that used an accessor
NoHandles ==
    [_embedding_service |-> <<>>, _rag_service |-> <<>>, _pdf_processor |-> <<>>,
     constructed |-> <<>>, uses |-> <<>>]

\* no call of TextChunker or DocumentTypeDetector is under way
NoCall == [pc |-> "none"]

DefaultSettings == [DEBUG |-> TRUE]

Init ==
    /\ documents = <<>>
    /\ document_chunks = <<>>
    /\ tasks = [t \in Tasks |-> IdleTask]
    /\ queries = [q \in QueryIds |-> IdleQuery]
    /\ running = 0
    /\ settings = DefaultSettings
    /\ http_responses = <<>>
    /\ handles = NoHandles
    /\ chunker = NoCall
    /\ detector = NoCall

\* the requests submitted so far, each counted with the process_pdf calls it carries
\* (a batch of no file counts as one)
Committed == LET RECURSIVE Sum(_)
                 Sum(t) == IF t = 0 THEN 0
                           ELSE (IF tasks[t].kind = "none" THEN 0
                                 ELSE IF tasks[t].file_paths = <<>> THEN 1
                                 ELSE Len(tasks[t].file_paths)) + Sum(t - 1)
             IN  Sum(MaxCalls)

\* the rows SelectSeq keeps
DocsWithHash(docs, h) == SelectSeq(docs, LAMBDA d : d.file_hash = h)

ChunksOf(rows, id) == SelectSeq(rows, LAMBDA c : c.document_id = id)

\* process_pdf is entered: its status object, and the history of the call
StartCall(task, file_path, filename) ==
    [task EXCEPT
        !.pc = "extract",
        !.file_path = file_path,
        !.filename = filename,
        !.status = NewStatus(filename),
        !.pre_documents = documents,
        !.pre_chunks = document_chunks]

\* process_pdf has returned: its locals are gone
EndCall(task) ==
    [task EXCEPT
        !.file_path = "", !.filename = "", !.status = NewStatus(""),
        !.text = "", !.num_pages = 0, !.doc_info = NoDocInfo, !.file_hash = "",
        !.file_size = 0, !.document_id = "", !.chunks = <<>>, !.i = 0, !.embeddings = <<>>,
        !.steps = <<>>, !.failed_at = None, !.embed_requests = <<>>,
        !.pre_documents = <<>>, !.pre_chunks = <<>>]

\* variants of the except clause: one that records the error and lets the call go
\* on, and one that lets the exception leave process_pdf and its callers
Except_continue(task, e) ==
    [task EXCEPT
        !.status.status = "error",
        !.status.error_message = Some(e)]

Except_propagate(task, e) ==
    [task EXCEPT
        !.status.status = "error",
        !.status.error_message = Some(e),
        !.pc = "done"]

\* variant of the except clause that also sets the progress to 100
Except_progress_100(task, e) ==
    [task EXCEPT
        !.status.status = "error",
        !.status.error_message = Some(e),
        !.status.progress = 100,
        !.pc = "return"]

\* except Exception as e: status.status = ERROR; status.error_message = str(e); return status
Except(task, e) ==
    [task EXCEPT
        !.status.status = "error",
        !.status.error_message = Some(e),
        !.pc = "return"]

\* history: the call runs a step; a step raises
Did(task, step) == [task EXCEPT !.steps = Append(@, step)]

Raised(task, step) == [task EXCEPT !.failed_at = Some(step)]

(***************************************************************************)
(* Requests: the /process-pdf and /process-batch handlers.  FastAPI starts *)
(* a handler as a task of the event loop; it runs until its first await.   *)
(***************************************************************************)
\* task identities are handed out in order
FirstIdle(t) == tasks[t].kind = "none" /\ \A u \in 1..(t - 1) : tasks[u].kind # "none"

SubmitProcessPdf(t, file_path, filename, category) ==
    /\ running = 0
    /\ FirstIdle(t)
    /\ Committed + 1 <= MaxCalls
    /\ tasks' = [tasks EXCEPT ![t] =
           StartCall([@ EXCEPT !.kind = "single",
                               !.file_paths = <<file_path>>,
                               !.category = category],
                     file_path, filename)]
    /\ running' = t
    /\ UNCHANGED <<settings, http_responses, chunker, detector, handles, documents, document_chunks, queries>>

SubmitProcessBatch(t, file_paths, category) ==
    /\ running = 0
    /\ FirstIdle(t)
    /\ Committed + (IF file_paths = <<>> THEN 1 ELSE Len(file_paths)) <= MaxCalls
    /\ tasks' = [tasks EXCEPT ![t] =
           [@ EXCEPT !.kind = "batch",
                     !.file_paths = file_paths,
                     !.category = category,
                     !.k = 1,
                     !.results = <<>>,
                     !.pc = "loop"]]
    /\ running' = t
    /\ UNCHANGED <<settings, http_responses, chunker, detector, handles, documents, document_chunks, queries>>

\* process_multiple_pdfs: for file_path in file_paths: ... ; return results
\* and the handler's ProcessBatchResponse
BatchLoop(t) ==
    LET task == tasks[t]
    IN  /\ running = t
        /\ task.pc = "loop"
        /\ IF task.k <= Len(task.file_paths)
           THEN /\ tasks' = [tasks EXCEPT ![t] =
                       StartCall(task, task.file_paths[task.k],
                                 basename(task.file_paths[task.k]))]
                /\ running' = t
           ELSE /\ tasks' = [tasks EXCEPT ![t] =
                       [task EXCEPT
                           !.pc = "done",
                           !.response = Some(
                              [results    |-> task.results,
                               total      |-> Len(task.results),
                               successful |-> Len(SelectSeq(task.results,
                                                 LAMBDA r : r.status = "completed")),
                               failed     |-> Len(SelectSeq(task.results,
                                                 LAMBDA r : r.status = "error"))])]]
                /\ running' = 0
        /\ UNCHANGED <<settings, http_responses, chunker, detector, handles, documents, document_chunks, queries>>

(***************************************************************************)
(* PDFProcessor.process_pdf, one action per step; a step that raises goes  *)
(* to the except clause.                                                   *)
(***************************************************************************)
\* 1. text, num_pages = self._extract_text_from_pdf(file_path)
Extract(t) ==
    LET task == Did(tasks[t], "extract")
    IN  /\ running = t
        /\ task.pc = "extract"
        /\ \/ tasks' = [tasks EXCEPT ![t] =
                  Except(Raised(task, "extract"), "PdfReadError: cannot read the file")]
           \/ tasks' = [tasks EXCEPT ![t] =
                  [task EXCEPT
                      !.text = _extract_text_from_pdf(task.file_path).text,
                      !.num_pages = _extract_text_from_pdf(task.file_path).num_pages,
                      !.status.progress = 20,
                      !.pc = "detect"]]
        /\ UNCHANGED <<settings, http_responses, chunker, detector, handles, documents, document_chunks, queries, running>>

\* 2. doc_info = self.detector.detect(filename, text)
Detect(t) ==
    LET task == Did(tasks[t], "detect")
    IN  /\ running = t
        /\ task.pc = "detect"
        /\ tasks' = [tasks EXCEPT ![t] =
               [task EXCEPT !.doc_info = detect(task.filename, task.text),
                            !.pc = "hash"]]
        /\ UNCHANGED <<settings, http_responses, chunker, detector, handles, documents, document_chunks, queries, running>>

\* 3. file_hash = self.calculate_file_hash(file_path); file_size = os.path.getsize(file_path)
Hash(t) ==
    LET task == Did(tasks[t], "hash")
    IN  /\ running = t
        /\ task.pc = "hash"
        /\ \/ tasks' = [tasks EXCEPT ![t] =
                  Except(Raised(task, "hash"), "OSError: cannot open the file")]
           \/ tasks' = [tasks EXCEPT ![t] =
                  [task EXCEPT
                      !.file_hash = calculate_file_hash(task.file_path),
                      !.file_size = getsize(task.file_path),
                      !.status.progress = 30,
                      !.pc = "lookup"]]
        /\ UNCHANGED <<settings, http_responses, chunker, detector, handles, documents, document_chunks, queries, running>>

\* variants of the lookup: one that matches on a column the rows do not carry, and one
\* that only sees the documents already processed
SelectByHash_nothing(file_hash) == <<>>

SelectByHash_processed(file_hash) ==
    SelectSeq(documents, LAMBDA d : d.file_hash = file_hash /\ d.processed)

\* supabase.table('documents').select('id').eq('file_hash', file_hash).execute().data
SelectByHash(file_hash) == DocsWithHash(documents, file_hash)

\* 4. existing = ...; if existing.data: COMPLETED, progress 100, return status
Lookup(t) ==
    LET task     == Did(tasks[t], "lookup")
        existing == SelectByHash(task.file_hash)
    IN  /\ running = t
        /\ task.pc = "lookup"
        /\ \/ tasks' = [tasks EXCEPT ![t] =
                  Except(Raised(task, "lookup"), "APIError: select failed")]
           \/ tasks' = [tasks EXCEPT ![t] =
                  IF existing # <<>>
                  THEN [task EXCEPT
                           !.status.status = "completed",
                           !.status.progress = 100,
                           !.status.document_id = existing[1].id,
                           !.pc = "return"]
                  ELSE [task EXCEPT !.pc = "insert"]]
        /\ UNCHANGED <<settings, http_responses, chunker, detector, handles, documents, document_chunks, queries, running>>

\* the id the store gives a new documents row
NewId == "doc-" \o ToString(Len(documents) + 1)

\* the row process_pdf inserts into documents
DocumentRow(task, id) ==
    [id            |-> id,
     filename      |-> task.filename,
     original_path |-> task.file_path,
     file_hash     |-> task.file_hash,
     file_size     |-> task.file_size,
     total_pages   |-> task.num_pages,
     document_type |-> task.doc_info.type,
     category      |-> IF task.category # None /\ task.category[1] # ""
                       THEN task.category[1]
                       ELSE task.doc_info.category,
     metadata      |-> task.doc_info.metadata,
     processed     |-> FALSE]

\* 5. document = supabase.table('documents').insert({...}).execute()
\*    if not document.data: raise Exception("Failed to insert document")
InsertDocument(t) ==
    LET task == Did(tasks[t], "insert_document")
    IN  /\ running = t
        /\ task.pc = "insert"
        /\ \/ /\ tasks' = [tasks EXCEPT ![t] =
                     Except(Raised(task, "insert_document"), "APIError: insert failed")]
              /\ UNCHANGED documents
           \/ /\ tasks' = [tasks EXCEPT ![t] =
                     Except(Raised(task, "insert_document"), "Failed to insert document")]
              /\ UNCHANGED documents
           \/ /\ documents' = Append(documents, DocumentRow(task, NewId))
              /\ tasks' = [tasks EXCEPT ![t] =
                     [task EXCEPT
                         !.document_id = NewId,
                         !.status.document_id = NewId,
                         !.status.progress = 40,
                         !.pc = "chunk"]]
        /\ UNCHANGED <<settings, http_responses, chunker, detector, handles, document_chunks, queries, running>>

\* 6. chunks = self.chunker.chunk_text(text, doc_info['type'], num_pages, ...)
Chunk(t) ==
    LET task == Did(tasks[t], "chunk")
    IN  /\ running = t
        /\ task.pc = "chunk"
        /\ tasks' = [tasks EXCEPT ![t] =
               [task EXCEPT
                   !.chunks = chunk_text(task.text, task.doc_info.type, task.num_pages,
                                         RAG_CHUNK_SIZE, RAG_CHUNK_OVERLAP),
                   !.status.progress = 50,
                   !.pc = "embed_call"]]
        /\ UNCHANGED <<settings, http_responses, chunker, detector, handles, documents, document_chunks, queries, running>>

\* the vector genai.embed_content returns for a text (opaque to this program)
Embedding(text) == "vec(" \o text \o ")"

\* 7. embeddings = await self.embedding_service.generate_batch_embeddings(chunks)
CallGenerateBatchEmbeddings(t) ==
    LET task == Did(tasks[t], "embed")
    IN  /\ running = t
        /\ task.pc = "embed_call"
        /\ tasks' = [tasks EXCEPT ![t] =
               [task EXCEPT !.i = 0, !.embeddings = <<>>, !.pc = "embed_loop"]]
        /\ UNCHANGED <<settings, http_responses, chunker, detector, handles, documents, document_chunks, queries, running>>

\* generate_batch_embeddings: for i, text in enumerate(texts):
\*     embedding = await self.generate_embedding(text)     (the request leaves; the task waits)
\* after the loop: return embeddings; process_pdf sets progress 80
EmbedLoop(t) ==
    LET task == tasks[t]
    IN  /\ running = t
        /\ task.pc = "embed_loop"
        /\ IF task.i < Len(task.chunks)
           THEN /\ tasks' = [tasks EXCEPT ![t] =
                       [task EXCEPT
                           !.embed_requests = Append(task.embed_requests, task.chunks[task.i + 1]),
                           !.pc = "embed_wait"]]
                /\ running' = 0
           ELSE /\ tasks' = [tasks EXCEPT ![t] =
                       [task EXCEPT !.status.progress = 80, !.pc = "insert_chunks"]]
                /\ running' = t
        /\ UNCHANGED <<settings, http_responses, chunker, detector, handles, documents, document_chunks, queries>>

\* variant of the embedding loop's error handling: the failed text is skipped
EmbedError_skip(task) == [task EXCEPT !.i = task.i + 1, !.pc = "embed_loop"]

\* except Exception as e: logger.error(...); raise, in generate_embedding and in
\* generate_batch_embeddings: the provider's error reaches process_pdf's except clause
EmbedError(task) == Except(task, "EmbeddingError: provider failed")

\* variant of the loop without its rate limiting: after a vector the loop goes on at once
EmbedReturn_no_sleep(t) ==
    LET task == tasks[t]
    IN  /\ running = 0
        /\ task.pc = "embed_wait"
        /\ \/ tasks' = [tasks EXCEPT ![t] = EmbedError(Raised(task, "embed"))]
           \/ tasks' = [tasks EXCEPT ![t] =
                  [task EXCEPT
                      !.embeddings = Append(task.embeddings,
                                            Embedding(task.chunks[task.i + 1])),
                      !.i = task.i + 1,
                      !.pc = "embed_loop"]]
        /\ running' = t
        /\ UNCHANGED <<settings, http_responses, chunker, detector, handles, documents, document_chunks, queries>>

\* the embedding request returns a vector, or raises (generate_embedding and
\* generate_batch_embeddings log and re-raise).  After a vector:
\*     embeddings.append(embedding); if i < len(texts) - 1: await asyncio.sleep(delay_ms / 1000)
EmbedReturn(t) ==
    LET task == tasks[t]
    IN  /\ running = 0
        /\ task.pc = "embed_wait"
        /\ \/ /\ tasks' = [tasks EXCEPT ![t] =
                     EmbedError(Raised(task, "embed"))]
              /\ running' = t
           \/ /\ tasks' = [tasks EXCEPT ![t] =
                     [task EXCEPT
                         !.embeddings = Append(task.embeddings,
                                               Embedding(task.chunks[task.i + 1])),
                         !.i = IF task.i < Len(task.chunks) - 1 THEN task.i ELSE task.i + 1,
                         !.pc = IF task.i < Len(task.chunks) - 1
                                THEN "sleep_wait" ELSE "embed_loop"]]
              /\ running' = IF task.i < Len(task.chunks) - 1 THEN 0 ELSE t
        /\ UNCHANGED <<settings, http_responses, chunker, detector, handles, documents, document_chunks, queries>>

\* asyncio.sleep returns: the loop goes to its next text
SleepReturn(t) ==
    LET task == tasks[t]
    IN  /\ running = 0
        /\ task.pc = "sleep_wait"
        /\ tasks' = [tasks EXCEPT ![t] =
               [task EXCEPT !.i = task.i + 1, !.pc = "embed_loop"]]
        /\ running' = t
        /\ UNCHANGED <<settings, http_responses, chunker, detector, handles, documents, document_chunks, queries>>

Min(a, b) == IF a <= b THEN a ELSE b

\* variant of chunks_to_insert that numbers the rows from 1
ChunkRows_from1(task) ==
    [n \in 1..Min(Len(task.chunks), Len(task.embeddings)) |->
        [document_id |-> task.document_id,
         chunk_text  |-> task.chunks[n],
         chunk_index |-> n,
         embedding   |-> task.embeddings[n],
         metadata    |-> [source |-> task.filename]]]

\* chunks_to_insert: one row per (chunk, embedding) of zip(chunks, embeddings), enumerate from 0
ChunkRows(task) ==
    [n \in 1..Min(Len(task.chunks), Len(task.embeddings)) |->
        [document_id |-> task.document_id,
         chunk_text  |-> task.chunks[n],
         chunk_index |-> n - 1,
         embedding   |-> task.embeddings[n],
         metadata    |-> [source |-> task.filename]]]

\* 8. supabase.table('document_chunks').insert(chunks_to_insert).execute()
InsertChunks(t) ==
    LET task == Did(tasks[t], "insert_chunks")
    IN  /\ running = t
        /\ task.pc = "insert_chunks"
        /\ \/ /\ tasks' = [tasks EXCEPT ![t] =
                     Except(Raised(task, "insert_chunks"), "APIError: chunk insert failed")]
              /\ UNCHANGED document_chunks
           \/ /\ document_chunks' = document_chunks \o ChunkRows(task)
              /\ tasks' = [tasks EXCEPT ![t] = [task EXCEPT !.pc = "mark"]]
        /\ UNCHANGED <<settings, http_responses, chunker, detector, handles, documents, queries, running>>

\* variant of the update without its eq filter
UpdateProcessed_all(docs, document_id) ==
    [n \in 1..Len(docs) |-> [docs[n] EXCEPT !.processed = TRUE]]

\* supabase.table('documents').update({'processed': True}).eq('id', document_id)
UpdateProcessed(docs, document_id) ==
    [n \in 1..Len(docs) |->
        IF docs[n].id = document_id THEN [docs[n] EXCEPT !.processed = TRUE] ELSE docs[n]]

\* 9. mark as processed; status COMPLETED, progress 100, chunks_created = len(chunks)
MarkProcessed(t) ==
    LET task == Did(tasks[t], "mark_processed")
    IN  /\ running = t
        /\ task.pc = "mark"
        /\ \/ /\ tasks' = [tasks EXCEPT ![t] =
                     Except(Raised(task, "mark_processed"), "APIError: update failed")]
              /\ UNCHANGED documents
           \/ /\ documents' = UpdateProcessed(documents, task.document_id)
              /\ tasks' = [tasks EXCEPT ![t] =
                     [task EXCEPT
                         !.status.status = "completed",
                         !.status.progress = 100,
                         !.status.chunks_created = Some(Len(task.chunks)),
                         !.pc = "return"]]
        /\ UNCHANGED <<settings, http_responses, chunker, detector, handles, document_chunks, queries, running>>

\* return status: to the /process-pdf handler, which responds with it, or to
\* process_multiple_pdfs: results.append(result), next file
Return(t) ==
    LET task == tasks[t]
    IN  /\ running = t
        /\ task.pc = "return"
        /\ IF task.kind = "single"
           THEN /\ tasks' = [tasks EXCEPT ![t] =
                       [EndCall(task) EXCEPT !.response = Some(task.status), !.pc = "done"]]
                /\ running' = 0
           ELSE /\ tasks' = [tasks EXCEPT ![t] =
                       [EndCall(task) EXCEPT !.results = Append(task.results, task.status),
                                             !.k = task.k + 1,
                                             !.pc = "loop"]]
                /\ running' = t
        /\ UNCHANGED <<settings, http_responses, chunker, detector, handles, documents, document_chunks, queries>>

Next ==
    \/ \E t \in Tasks, request \in PdfRequests :
          SubmitProcessPdf(t, request.file_path, request.filename, request.category)
    \/ \E t \in Tasks, file_paths \in BatchLists :
          SubmitProcessBatch(t, file_paths, None)
    \/ \E t \in Tasks : BatchLoop(t)
    \/ \E t \in Tasks : Extract(t)
    \/ \E t \in Tasks : Detect(t)
    \/ \E t \in Tasks : Hash(t)
    \/ \E t \in Tasks : Lookup(t)
    \/ \E t \in Tasks : InsertDocument(t)
    \/ \E t \in Tasks : Chunk(t)
    \/ \E t \in Tasks : CallGenerateBatchEmbeddings(t)
    \/ \E t \in Tasks : EmbedLoop(t)
    \/ \E t \in Tasks : EmbedReturn(t)
    \/ \E t \in Tasks : SleepReturn(t)
    \/ \E t \in Tasks : InsertChunks(t)
    \/ \E t \in Tasks : MarkProcessed(t)
    \/ \E t \in Tasks : Return(t)

Spec == Init /\ [][Next]_vars

(***************************************************************************)
(* RAGService.query.  The canned answers are long HTML texts; each is      *)
(* modelled by its heading.                                                *)
(***************************************************************************)
HelpKeywords ==
    <<"ayuda", "ayúdame", "qué puedes hacer", "que puedes hacer", "qué temas", "que temas",
      "sobre qué", "sobre que", "de qué", "de que", "help", "opciones", "menú", "menu">>

FaqKeywords == <<"faq", "preguntas frecuentes", "consultas frecuentes">>

RagHelpKeywords ==
    <<"ayuda con el rag", "como preguntar", "cómo preguntar", "mejores preguntas">>

TopicsKeywords == <<"temas disponibles", "temas que manejas", "sobre qué sabes">>

\* QueryResponse(answer=..., document_name=..., sources=...)
QueryResponse(answer, document_name, sources) ==
    [answer |-> answer, document_name |-> document_name, sources |-> sources]

HelpResponse ==
    QueryResponse("<h2>Asistente de Trámites Municipales</h2>", Some("Sistema de Ayuda"), <<>>)

FaqResponse ==
    QueryResponse("<h3>Preguntas Frecuentes</h3>", Some("Preguntas Frecuentes"), <<>>)

RagHelpResponse ==
    QueryResponse("<h3>Cómo usar el Asistente RAG</h3>", Some("Guía de Uso del RAG"), <<>>)

TopicsResponse ==
    QueryResponse("<h3>Temas Disponibles</h3>", Some("Catálogo de Temas"), <<>>)

NoInformationResponse ==
    QueryResponse("<p>Lo siento, no encontré información específica en mis documentos sobre tu consulta.</p>",
                  None, <<>>)

ErrorResponse ==
    QueryResponse("<p class=\"text-red-600\">Ocurrió un error interno al procesar tu solicitud.</p>",
                  Some(""), <<>>)

\* variant of the special commands that knows the help keywords only
CannedResponse_help_only(query_lower) ==
    IF AnyIn(HelpKeywords, query_lower) THEN Some(HelpResponse) ELSE None

\* mutant of CannedResponse: the FAQ command is tried before the help command
CannedResponse_faq_first(query_lower) ==
    IF AnyIn(FaqKeywords, query_lower) THEN Some(FaqResponse)
    ELSE IF AnyIn(HelpKeywords, query_lower) THEN Some(HelpResponse)
    ELSE IF AnyIn(RagHelpKeywords, query_lower) THEN Some(RagHelpResponse)
    ELSE IF AnyIn(TopicsKeywords, query_lower) THEN Some(TopicsResponse)
    ELSE None

\* the special commands of query, tried in the code's order: the response of the
\* first one whose keywords query_lower contains, None when there is none
CannedResponse(query_lower) ==
    IF AnyIn(HelpKeywords, query_lower) THEN Some(HelpResponse)
    ELSE IF AnyIn(FaqKeywords, query_lower) THEN Some(FaqResponse)
    ELSE IF AnyIn(RagHelpKeywords, query_lower) THEN Some(RagHelpResponse)
    ELSE IF AnyIn(TopicsKeywords, query_lower) THEN Some(TopicsResponse)
    ELSE None

\* the vector genai.embed_content returns for a query (opaque to this program)
QueryEmbedding(query) == "qvec(" \o query \o ")"

\* _build_context: "[Fuente: {filename}]\n{chunk_text}" of each chunk, joined
_build_context(chunks) ==
    join("\n\n---\n\n",
         [n \in 1..Len(chunks) |->
             "[Fuente: " \o chunks[n].filename \o "]\n" \o chunks[n].chunk_text])

\* the prompt of _generate_answer, without its fixed instructions
Prompt(query, context) ==
    "CONTEXTO DE DOCUMENTOS MUNICIPALES:\n" \o context
        \o "\n\nPREGUNTA DEL USUARIO: " \o query \o "\n\nRESPUESTA:"

\* texts the generative model may answer with
Answers ==
    {"<p>Respuesta basada en el contexto.</p>",
     "<p>Lo siento, solo puedo ayudarte con consultas relacionadas a <strong>trámites municipales</strong>.</p>"}

\* the locals of a process_pdf call on file_path in which every step succeeds, built
\* step by step as the call builds them
Extracted(file_path, filename, id, extracted) ==
    [file_path   |-> file_path,
     filename    |-> filename,
     category    |-> None,
     text        |-> extracted.text,
     num_pages   |-> extracted.num_pages,
     file_hash   |-> calculate_file_hash(file_path),
     file_size   |-> getsize(file_path),
     document_id |-> id]

Detected(locals, doc_info) ==
    [file_path   |-> locals.file_path,
     filename    |-> locals.filename,
     category    |-> locals.category,
     num_pages   |-> locals.num_pages,
     doc_info    |-> doc_info,
     file_hash   |-> locals.file_hash,
     file_size   |-> locals.file_size,
     document_id |-> locals.document_id,
     chunks      |-> chunk_text(locals.text, doc_info.type, locals.num_pages,
                                RAG_CHUNK_SIZE, RAG_CHUNK_OVERLAP)]

Embedded(locals) ==
    [file_path   |-> locals.file_path,
     filename    |-> locals.filename,
     category    |-> locals.category,
     num_pages   |-> locals.num_pages,
     doc_info    |-> locals.doc_info,
     file_hash   |-> locals.file_hash,
     file_size   |-> locals.file_size,
     document_id |-> locals.document_id,
     chunks      |-> locals.chunks,
     embeddings  |-> [n \in 1..Len(locals.chunks) |-> Embedding(locals.chunks[n])]]

DetectedFrom(locals) == Detected(locals, detect(locals.filename, locals.text))

CallLocals(file_path, filename, id) ==
    Embedded(DetectedFrom(Extracted(file_path, filename, id,
                                    _extract_text_from_pdf(file_path))))

\* the store after such a call: unchanged when a Document has the file's hash, else
\* with the call's Document row, processed, and its chunk rows
StoreWith(store, locals) ==
    IF DocsWithHash(store.documents, locals.file_hash) # <<>> THEN store
    ELSE [documents |->
             UpdateProcessed(Append(store.documents, DocumentRow(locals, locals.document_id)),
                             locals.document_id),
          document_chunks |-> store.document_chunks \o ChunkRows(locals)]

IngestedInto(store, request) ==
    StoreWith(store, CallLocals(request.file_path, request.filename,
                                "doc-" \o ToString(Len(store.documents) + 1)))

\* the store after process_pdf was called for each of requests (a file and the name to
\* record for it), one call after the other, every step succeeding
RECURSIVE StoreAfter(_)
StoreAfter(requests) ==
    IF requests = <<>> THEN [documents |-> <<>>, document_chunks |-> <<>>]
    ELSE IngestedInto(StoreAfter(SubSeq(requests, 1, Len(requests) - 1)),
                      requests[Len(requests)])

\* the files ingested before the queries arrive
Corpora ==
    {<<>>,
     <<[file_path |-> "docs/ley_27972.pdf", filename |-> "ley_27972.pdf"]>>,
     <<[file_path |-> "docs/ley_27972.pdf", filename |-> "ley_27972.pdf"],
       [file_path |-> "docs/guia.pdf", filename |-> "guia.pdf"]>>,
     \* ProcessPDFRequest.filename is any string, the empty one included
     <<[file_path |-> "docs/ley_27972.pdf", filename |-> "ley_27972.pdf"],
       [file_path |-> "docs/guia.pdf", filename |-> ""]>>}

\* the queries of the /query requests
Queries ==
    {"ayuda", " AYUDA ", "FAQ", "como preguntar", "Ayuda con el RAG", "temas disponibles",
     "licencia de funcionamiento", "requisitos de queja", "horario",
     "Preguntas Frecuentes", "Temas disponibles", "opciones de preguntas frecuentes",
     "mejores preguntas frecuentes", "como preguntar por temas disponibles"}

QueryInit ==
    /\ \E store \in {StoreAfter(corpus) : corpus \in Corpora} :
          /\ documents = store.documents
          /\ document_chunks = store.document_chunks
    /\ tasks = [t \in Tasks |-> IdleTask]
    /\ queries = [q \in QueryIds |-> IdleQuery]
    /\ running = 0
    /\ settings = DefaultSettings
    /\ http_responses = <<>>
    /\ handles = NoHandles
    /\ chunker = NoCall
    /\ detector = NoCall

\* the sequences of at most n distinct elements of S
RECURSIVE DistinctSeqs(_, _)
DistinctSeqs(S, n) ==
    IF n = 0 THEN {<<>>}
    ELSE LET shorter == DistinctSeqs(S, n - 1)
         IN  shorter \cup
             UNION {{Append(l, x) : x \in S \ {l[m] : m \in 1..Len(l)}} :
                       l \in {y \in shorter : Len(y) = n - 1}}

\* a row of the search_similar_chunks function of the store: a chunk with the filename
\* of its Document
SearchRow(c) ==
    [chunk_text |-> c.chunk_text,
     filename   |-> (CHOOSE d \in {documents[n] : n \in 1..Len(documents)} :
                        d.id = c.document_id).filename]

\* what the function may return for match_count: chunks of the store, the most
\* similar first, at most match_count of them (which ones, the store decides)
SearchResults(match_count) ==
    {[n \in 1..Len(l) |-> SearchRow(document_chunks[l[n]])] :
        l \in DistinctSeqs(1..Len(document_chunks), Min(match_count, Len(document_chunks)))}

\* variant of sources without set(): the filename of every chunk
Sources_all(chunks) == {[n \in 1..Len(chunks) |-> chunks[n].filename]}

\* list(set([chunk.get('filename') for chunk in chunks if chunk.get('filename')])):
\* the distinct filenames, in any order
Sources(chunks) ==
    LET names == {chunks[n].filename : n \in 1..Len(chunks)} \ {""}
    IN  {l \in DistinctSeqs(names, Cardinality(names)) : Len(l) = Cardinality(names)}

\* variant of the test on the search result that only recognises None
NoChunks_is_none(chunks) == FALSE

\* if not chunks
NoChunks(chunks) == chunks = <<>>

\* variant of query's except clause that puts the error's text in the answer
QueryExcept_expose(call, e) ==
    [call EXCEPT
        !.raised = Append(@, e),
        !.response = Some(QueryResponse("<p>Error: " \o e \o "</p>", Some(""), <<>>)),
        !.pc = "done"]

\* except Exception as e: logger.error(...); return the generic error response
\* (history: the error raised)
QueryExcept(call, e) ==
    [call EXCEPT
        !.raised = Append(@, e),
        !.response = Some(ErrorResponse),
        !.pc = "done"]

FirstIdleQuery(q) == queries[q].pc = "idle" /\ \A r \in 1..(q - 1) : queries[r].pc # "idle"

\* the /query handler calls RAGService.query: the special commands, then
\* query_embedding = await generate_query_embedding(query) (the request leaves; the
\* task waits)
SubmitQuery(q, query) ==
    LET query_lower == strip(lower(query))
        canned      == CannedResponse(query_lower)
    IN  /\ running = 0
        /\ FirstIdleQuery(q)
        /\ queries' = [queries EXCEPT ![q] =
               IF canned # None
               THEN [@ EXCEPT !.query = query, !.response = canned, !.pc = "done"]
               ELSE [@ EXCEPT !.query = query,
                              !.embed_calls = Append(@, query),
                              !.pc = "embed_wait"]]
        /\ running' = 0
        /\ UNCHANGED <<settings, http_responses, chunker, detector, handles, documents, document_chunks, tasks>>

\* the embedding request returns a vector, or raises: generate_query_embedding logs
\* and re-raises, query's except clause answers with the generic error response
QueryEmbedReturn(q) ==
    LET call == queries[q]
    IN  /\ running = 0
        /\ call.pc = "embed_wait"
        /\ \/ /\ queries' = [queries EXCEPT ![q] =
                     QueryExcept(call, "EmbeddingError: provider failed")]
              /\ running' = 0
           \/ /\ queries' = [queries EXCEPT ![q] =
                     [call EXCEPT !.query_embedding = QueryEmbedding(call.query),
                                  !.pc = "search"]]
              /\ running' = QueryTask(q)
        /\ UNCHANGED <<settings, http_responses, chunker, detector, handles, documents, document_chunks, tasks>>

\* chunks = await self._search_similar_chunks(query_embedding, threshold, limit);
\* if not chunks: the no-information response; else context = self._build_context(chunks)
Search(q) ==
    LET call == [queries[q] EXCEPT
                    !.search_calls = Append(@,
                        [query_embedding |-> queries[q].query_embedding,
                         match_threshold |-> RAG_SIMILARITY_THRESHOLD,
                         match_count     |-> RAG_TOP_K_RESULTS])]
    IN  /\ running = QueryTask(q)
        /\ call.pc = "search"
        /\ \/ /\ queries' = [queries EXCEPT ![q] =
                     QueryExcept(call, "APIError: rpc failed")]
              /\ running' = 0
           \/ \E rows \in SearchResults(RAG_TOP_K_RESULTS) :
                 IF NoChunks(rows)
                 THEN /\ queries' = [queries EXCEPT ![q] =
                            [call EXCEPT !.search_rows = Append(@, rows),
                                         !.chunks = rows,
                                         !.response = Some(NoInformationResponse),
                                         !.pc = "done"]]
                      /\ running' = 0
                 ELSE /\ queries' = [queries EXCEPT ![q] =
                            [call EXCEPT !.search_rows = Append(@, rows),
                                         !.chunks = rows,
                                         !.context = _build_context(rows),
                                         !.pc = "generate"]]
                      /\ running' = QueryTask(q)
        /\ UNCHANGED <<settings, http_responses, chunker, detector, handles, documents, document_chunks, tasks>>

\* answer = await self._generate_answer(query, context); sources; the response with
\* document_name = chunks[0].get('filename', ...) (an IndexError on an empty list, as
\* any error of the model, goes to the except clause)
Generate(q) ==
    LET call == [queries[q] EXCEPT
                    !.generate_calls = Append(@,
                        [prompt  |-> Prompt(queries[q].query, queries[q].context),
                         context |-> queries[q].context,
                         chunks  |-> queries[q].chunks])]
    IN  /\ running = QueryTask(q)
        /\ call.pc = "generate"
        /\ \/ queries' = [queries EXCEPT ![q] =
                  QueryExcept(call, "GenerationError: the model returned no text")]
           \/ \E answer \in Answers, sources \in Sources(call.chunks) :
                 queries' = [queries EXCEPT ![q] =
                     IF call.chunks = <<>>
                     THEN QueryExcept([call EXCEPT !.generated = Append(@, answer)],
                                      "IndexError: list index out of range")
                     ELSE [call EXCEPT
                              !.generated = Append(@, answer),
                              !.response = Some(QueryResponse(answer,
                                               Some(call.chunks[1].filename), sources)),
                              !.pc = "done"]]
        /\ running' = 0
        /\ UNCHANGED <<settings, http_responses, chunker, detector, handles, documents, document_chunks, tasks>>

QueryNext ==
    \/ \E q \in QueryIds, query \in Queries : SubmitQuery(q, query)
    \/ \E q \in QueryIds : QueryEmbedReturn(q)
    \/ \E q \in QueryIds : Search(q)
    \/ \E q \in QueryIds : Generate(q)

SpecQuery == QueryInit /\ [][QueryNext]_vars

(***************************************************************************)
(* The API boundary: the except clauses of the route handlers, the /stats  *)
(* handler and the application's exception handler.                        *)
(***************************************************************************)
\* an HTTP response: of a handler that returned (stats), of an HTTPException (error and
\* message of its detail) or of the exception handler (error and message of its
\* content); exception is the history of what was raised
HttpResponse(route, status_code, error, message, stats, exception) ==
    [route |-> route, status_code |-> status_code, error |-> error, message |-> message,
     stats |-> stats, exception |-> exception]

\* sum(doc.get('total_pages', 0) for doc in pages_response.data)
RECURSIVE TotalPages(_)
TotalPages(docs) ==
    IF docs = <<>> THEN 0 ELSE docs[1].total_pages + TotalPages(Tail(docs))

\* the counts get_stats aggregates: one entry per value of a column
CountBy(docs, column) ==
    [v \in {docs[n][column] : n \in 1..Len(docs)} |->
        Cardinality({n \in 1..Len(docs) : docs[n][column] = v})]

\* DocumentStats of get_stats
DocumentStats ==
    IF documents = <<>>
    THEN [total_documents |-> 0, total_chunks |-> 0, total_pages |-> 0,
          categories |-> <<>>, document_types |-> <<>>]
    ELSE [total_documents |-> Len(documents),
          total_chunks    |-> Len(document_chunks),
          total_pages     |-> TotalPages(documents),
          categories      |-> CountBy(documents, "category"),
          document_types  |-> CountBy(documents, "document_type")]

\* raise HTTPException(status_code=500, detail={"error": ..., "message": str(e)})
RouteError(route, error, e) == HttpResponse(route, 500, error, e, None, Some(e))

\* GET /stats: the statistics of the store, or the except clause when a select raises
\* (the accented letter of the "error" text is stored mis-encoded in the source file)
GetStats ==
    /\ running = 0
    /\ Len(http_responses) < MaxHttp
    /\ \/ http_responses' = Append(http_responses,
              HttpResponse("/stats", 200, "", "", Some(DocumentStats), None))
       \/ http_responses' = Append(http_responses,
              RouteError("/stats", "Error obteniendo estadísticas",
                         "APIError: connection refused"))
    /\ UNCHANGED <<documents, document_chunks, tasks, queries, running, settings,
                   chunker, detector, handles>>

\* the except clause of the /query, /process-pdf and /process-batch handlers: the
\* service cannot be built (get_rag_service, get_pdf_processor raise)
RouteErrors ==
    {RouteError("/query", "Error procesando consulta",
                "ValueError: GEMINI_API_KEY rejected"),
     RouteError("/process-pdf", "Error procesando PDF",
                "ValueError: GEMINI_API_KEY rejected"),
     RouteError("/process-batch", "Error procesando PDFs en batch",
                "ValueError: GEMINI_API_KEY rejected")}

HandlerRaises(response) ==
    /\ running = 0
    /\ Len(http_responses) < MaxHttp
    /\ http_responses' = Append(http_responses, response)
    /\ UNCHANGED <<documents, document_chunks, tasks, queries, running, settings,
                   chunker, detector, handles>>

\* global_exception_handler: an exception no route handler caught
\*     "message": str(exc) if settings.DEBUG else "Error procesando solicitud"
global_exception_handler(exc) ==
    /\ running = 0
    /\ Len(http_responses) < MaxHttp
    /\ http_responses' = Append(http_responses,
           HttpResponse("", 500, "Error interno del servidor",
                        IF settings.DEBUG THEN exc ELSE "Error procesando solicitud",
                        None, Some(exc)))
    /\ UNCHANGED <<documents, document_chunks, tasks, queries, running, settings,
                   chunker, detector, handles>>

\* the application starts with the settings its environment gives
ApiInit ==
    /\ documents = <<>>
    /\ document_chunks = <<>>
    /\ tasks = [t \in Tasks |-> IdleTask]
    /\ queries = [q \in QueryIds |-> IdleQuery]
    /\ running = 0
    /\ settings \in {[DEBUG |-> b] : b \in BOOLEAN}
    /\ http_responses = <<>>
    /\ handles = NoHandles
    /\ chunker = NoCall
    /\ detector = NoCall

ApiNext ==
    \/ Next
    \/ GetStats
    \/ \E response \in RouteErrors : HandlerRaises(response)
    \/ global_exception_handler("RuntimeError: unexpected")

SpecApi == ApiInit /\ [][ApiNext]_vars

(***************************************************************************)
(* Properties of ingestion.  A call of process_pdf is observed where it    *)
(* returns (pc = "return"): the task still holds the call's locals and its *)
(* history, and the store is as the call left it.                          *)
(***************************************************************************)
StepOrder ==
    <<"extract", "detect", "hash", "lookup", "insert_document", "chunk", "embed",
      "insert_chunks", "mark_processed">>

Range(s) == {s[n] : n \in 1..Len(s)}

\* the ProcessingStatus objects process_pdf has returned so far
ReturnedStatuses ==
    UNION {Range(tasks[t].results)
             \cup (IF tasks[t].kind = "single" /\ tasks[t].response # None
                   THEN {tasks[t].response[1]} ELSE {}) : t \in Tasks}

SameContent(path1, path2) == FileBytes(path1) = FileBytes(path2)

DocsWithContent(docs, path) ==
    SelectSeq(docs, LAMBDA d : SameContent(d.original_path, path))

EmbeddingErrorText == "EmbeddingError: provider failed"

\* the call of task t returns without any of its steps having raised, and when it
\* started the store held a processed Document of the same file content
SecondIngestion(t) ==
    /\ tasks[t].pc = "return"
    /\ tasks[t].failed_at = None
    /\ \E d \in Range(tasks[t].pre_documents) :
          d.processed /\ SameContent(d.original_path, tasks[t].file_path)

\* C1: when a file's content has been ingested successfully, a later process_pdf
\* call on the same content returns COMPLETED having run only the steps up to the
\* lookup: it inserts nothing, requests no embedding and updates nothing, so the
\* store keeps exactly one Document row of that content and one set of chunk rows.
C1_SecondIngestionIsNoOp ==
    \A t \in Tasks : SecondIngestion(t) =>
        LET task == tasks[t]
            same == DocsWithContent(documents, task.file_path)
            rows == ChunksOf(document_chunks, same[1].id)
        IN  /\ task.status.status = "completed"
            /\ task.steps = SubSeq(StepOrder, 1, 4)
            /\ task.embed_requests = <<>>
            /\ documents = task.pre_documents
            /\ document_chunks = task.pre_chunks
            /\ Len(same) = 1
            /\ task.status.document_id = same[1].id
            /\ rows # <<>>
            /\ \A a, b \in 1..Len(rows) : rows[a].chunk_index = rows[b].chunk_index => a = b

C1_Witness == \E t \in Tasks : SecondIngestion(t) /\ tasks[t].filename = "copia.pdf"

\* C2: in every reachable state the documents table holds at most one row per
\* file hash.
C2_OneDocumentPerHash ==
    \A m, n \in 1..Len(documents) :
        documents[m].file_hash = documents[n].file_hash => m = n

\* a call found the row of a call of the same content that is suspended in its
\* embedding loop
C2_Witness ==
    \E t, u \in Tasks :
        /\ t # u
        /\ tasks[t].pc \in {"embed_wait", "sleep_wait"}
        /\ tasks[u].pc = "return"
        /\ tasks[u].file_hash = tasks[t].file_hash
        /\ tasks[u].status.document_id = tasks[t].document_id

\* process_pdf returned ERROR for Document id because an embedding request failed
EmbeddingFailedFor(id) ==
    \E r \in ReturnedStatuses :
        /\ r.document_id = id
        /\ r.status = "error"
        /\ r.error_message = Some(EmbeddingErrorText)

\* C3 as the specification states it: when an ingestion failed at the embedding
\* step and left an unprocessed Document without chunks, a later process_pdf call
\* on the same content in which nothing fails leaves that content ingested: a
\* processed Document with its chunk rows.
C3_RetryCompletesIngestion ==
    \A t \in Tasks :
        LET task == tasks[t]
        IN  (/\ task.pc = "return"
             /\ task.failed_at = None
             /\ \E d \in Range(task.pre_documents) :
                   /\ SameContent(d.original_path, task.file_path)
                   /\ ~d.processed
                   /\ ChunksOf(task.pre_chunks, d.id) = <<>>
                   /\ EmbeddingFailedFor(d.id))
            => \E d \in Range(documents) :
                   /\ SameContent(d.original_path, task.file_path)
                   /\ d.processed
                   /\ ChunksOf(document_chunks, d.id) # <<>>

\* C4: when an embedding request of a call fails, the call goes straight to its
\* return with status ERROR and the error's text: the failed request is the last it
\* issued (one request per chunk, in order, none repeated), no chunk row of its
\* Document is written and the Document stays unprocessed; and this is still so of
\* every Document for which such an ERROR was returned.
C4_EmbeddingFailureAbortsCall ==
    /\ \A t \in Tasks :
          LET task == tasks[t]
          IN  task.failed_at = Some("embed") =>
                /\ task.pc = "return"
                /\ task.status.status = "error"
                /\ task.status.error_message = Some(EmbeddingErrorText)
                /\ task.status.document_id = task.document_id
                /\ task.embed_requests = SubSeq(task.chunks, 1, Len(task.embeddings) + 1)
                /\ ChunksOf(document_chunks, task.document_id) = <<>>
                /\ \E d \in Range(documents) : d.id = task.document_id /\ ~d.processed
    /\ \A d \in Range(documents) :
          EmbeddingFailedFor(d.id) =>
              ~d.processed /\ ChunksOf(document_chunks, d.id) = <<>>

\* the request for the first text of a call fails; its second text is never requested
C4_Witness ==
    \E t \in Tasks :
        /\ tasks[t].failed_at = Some("embed")
        /\ Len(tasks[t].embed_requests) = 1
        /\ Len(tasks[t].chunks) = 2

\* every Document marked processed has chunk rows
ProcessedHasChunks ==
    \A d \in Range(documents) : d.processed => ChunksOf(document_chunks, d.id) # <<>>

\* a step of the store: rows are only added to documents; a row changes in nothing but
\* its processed flag, which goes from false to true, and only when the store already
\* holds a chunk row for each chunk of the call that sets it
DocumentsStep ==
    /\ Len(documents') >= Len(documents)
    /\ \A n \in 1..Len(documents) :
          /\ [documents'[n] EXCEPT !.processed = documents[n].processed] = documents[n]
          /\ documents[n].processed => documents'[n].processed
          /\ (~documents[n].processed /\ documents'[n].processed) =>
                \E t \in Tasks :
                    /\ tasks[t].document_id = documents[n].id
                    /\ tasks[t].chunks # <<>>
                    /\ Len(ChunksOf(document_chunks, documents[n].id)) = Len(tasks[t].chunks)
                    /\ ChunksOf(document_chunks', documents[n].id)
                          = ChunksOf(document_chunks, documents[n].id)

DocumentTypes ==
    {detect(basename(file_path), _extract_text_from_pdf(file_path).text).type :
        file_path \in Paths}

PageCounts == {_extract_text_from_pdf(file_path).num_pages : file_path \in Paths}

\* the segments the chunker returns for the text of each file, by document type and
\* page count
SegmentTable ==
    [file_path \in Paths |->
        [document_type \in DocumentTypes |->
            [num_pages \in PageCounts |->
                chunk_text(_extract_text_from_pdf(file_path).text, document_type,
                           num_pages, RAG_CHUNK_SIZE, RAG_CHUNK_OVERLAP)]]]

\* the segments the chunker returns for the file a Document row was made from
SegmentsOf(d) == SegmentTable[d.original_path][d.document_type][d.total_pages]

\* C6: the chunk rows of a Document are, in insertion order, one row per segment the
\* chunker returned, the row of the n-th segment (counting from 0) carrying
\* chunk_index n and that segment's text: the indices are exactly 0..n-1.
C6_ChunkIndexContiguous ==
    \A d \in Range(documents) :
        LET rows == ChunksOf(document_chunks, d.id)
        IN  rows # <<>> =>
              /\ Len(rows) = Len(SegmentsOf(d))
              /\ \A n \in 1..Len(rows) :
                    /\ rows[n].chunk_index = n - 1
                    /\ rows[n].chunk_text = SegmentsOf(d)[n]

\* two Documents have their chunk rows, one of them two rows
C6_Witness ==
    /\ \E d \in Range(documents) : Len(ChunksOf(document_chunks, d.id)) = 2
    /\ \E d, e \in Range(documents) :
          /\ d.id # e.id
          /\ ChunksOf(document_chunks, d.id) # <<>>
          /\ ChunksOf(document_chunks, e.id) # <<>>

\* C7: the steps a process_pdf call has run are an initial part of extract, detect,
\* hash, lookup, Document insert, chunk, embed, chunk insert, mark processed; when a
\* step raises it is the last step the call runs and the call returns ERROR with the
\* error's text; and when that step is the extraction, the hashing or the lookup the
\* store is as it was when the call started and no embedding was requested.
C7_StepsInOrderAndAbort ==
    \A t \in Tasks :
        LET task == tasks[t]
        IN  /\ Len(task.steps) <= Len(StepOrder)
            /\ task.steps = SubSeq(StepOrder, 1, Len(task.steps))
            /\ task.failed_at # None =>
                  /\ task.pc = "return"
                  /\ task.steps # <<>>
                  /\ task.steps[Len(task.steps)] = task.failed_at[1]
                  /\ task.status.status = "error"
                  /\ task.status.error_message # None
            /\ (task.pc = "return" /\ task.failed_at = None) =>
                  task.status.status = "completed"
            /\ task.failed_at \in {Some("extract"), Some("hash"), Some("lookup")} =>
                  /\ documents = task.pre_documents
                  /\ document_chunks = task.pre_chunks
                  /\ task.embed_requests = <<>>

\* the lookup of a call raises while the store holds the rows of an earlier call
C7_Witness ==
    \E t \in Tasks :
        /\ tasks[t].failed_at = Some("lookup")
        /\ tasks[t].pre_documents # <<>>
        /\ tasks[t].pre_chunks # <<>>

\* C8: process_multiple_pdfs builds one ProcessingStatus per path, in the order of
\* the paths, whatever the status of the earlier ones: while it runs, the results so
\* far are those of the first k - 1 paths and the loop is at path k; when the request
\* is answered there is a result for every path.
C8_BatchOneStatusPerPath ==
    \A t \in Tasks :
        LET task == tasks[t]
        IN  task.kind = "batch" =>
              /\ task.k = Len(task.results) + 1
              /\ Len(task.results) <= Len(task.file_paths)
              /\ \A n \in 1..Len(task.results) :
                    /\ task.results[n].filename = basename(task.file_paths[n])
                    /\ task.results[n].status \in {"completed", "error"}
              /\ task.pc = "done" =>
                    /\ Len(task.results) = Len(task.file_paths)
                    /\ task.response # None
                    /\ task.response[1].results = task.results
                    /\ task.response[1].total = Len(task.file_paths)

\* a batch is answered whose first file failed and whose second file was ingested
C8_Witness ==
    \E t \in Tasks :
        /\ tasks[t].kind = "batch"
        /\ tasks[t].pc = "done"
        /\ Len(tasks[t].results) = 2
        /\ tasks[t].results[1].status = "error"
        /\ tasks[t].results[2].status = "completed"
        /\ tasks[t].results[2].chunks_created # None

(***************************************************************************)
(* Properties of RAGService.query                                          *)
(***************************************************************************)
CannedKeywords == HelpKeywords \o FaqKeywords \o RagHelpKeywords \o TopicsKeywords

MatchesCanned(query) == AnyIn(CannedKeywords, strip(lower(query)))

StaticResponses == {HelpResponse, FaqResponse, RagHelpResponse, TopicsResponse}

\* C9: a query that contains a keyword of one of the special commands is answered
\* at once with one of the static responses, whose source list is empty, and no
\* request is made to the embedding provider, the similarity search or the
\* generative model.
C9_CannedQueryMakesNoCalls ==
    \A q \in QueryIds :
        LET call == queries[q]
        IN  (call.pc # "idle" /\ MatchesCanned(call.query)) =>
              /\ call.pc = "done"
              /\ call.response # None
              /\ call.response[1] \in StaticResponses
              /\ call.response[1].sources = <<>>
              /\ call.embed_calls = <<>>
              /\ call.search_calls = <<>>
              /\ call.generate_calls = <<>>

\* the query "ayuda" is answered while the store holds chunks, and so is a query
\* that only matches a later command
C9_Witness ==
    /\ document_chunks # <<>>
    /\ \E q \in QueryIds :
          /\ queries[q].pc = "done"
          /\ queries[q].query \in {"ayuda", "FAQ"}
          /\ queries[q].response # None

\* C10: when the similarity search returns no row the query is answered with the
\* no-information response, its source list empty and its document_name unset, and
\* the generative model is not called; and every call of the generative model has
\* the context built from the rows a search returned, at least one.
C10_NoChunksNoGeneration ==
    \A q \in QueryIds :
        LET call == queries[q]
        IN  /\ \A n \in 1..Len(call.search_rows) :
                  call.search_rows[n] = <<>> =>
                      /\ call.pc = "done"
                      /\ call.response # None
                      /\ call.response[1].answer = NoInformationResponse.answer
                      /\ call.response[1].sources = <<>>
                      /\ call.response[1].document_name = None
                      /\ call.generate_calls = <<>>
            /\ \A n \in 1..Len(call.generate_calls) :
                  /\ call.generate_calls[n].chunks # <<>>
                  /\ call.generate_calls[n].chunks \in Range(call.search_rows)
                  /\ call.generate_calls[n].context
                        = _build_context(call.generate_calls[n].chunks)
                  /\ call.generate_calls[n].context # ""

\* the store holds chunks, none of them similar enough to the query
C10_Witness ==
    /\ document_chunks # <<>>
    /\ \E q \in QueryIds :
          /\ queries[q].search_rows = <<(<<>>)>>
          /\ queries[q].pc = "done"

\* the query of call was answered from retrieved chunks with the text the generative
\* model returned, no error raised
Answered(call) ==
    /\ call.pc = "done"
    /\ call.chunks # <<>>
    /\ call.generated # <<>>
    /\ call.raised = <<>>

Filenames(chunks) == {chunks[n].filename : n \in 1..Len(chunks)}

NoDuplicates(l) == \A m, n \in 1..Len(l) : l[m] = l[n] => m = n

\* C11 as the specification states it: the answer is the model's text, document_name
\* the filename of the first retrieved chunk, and sources holds every distinct
\* filename of the retrieved chunks once and nothing else.
C11_SourcesAreAllFilenames ==
    \A q \in QueryIds :
        LET call == queries[q]
        IN  Answered(call) =>
              /\ call.response[1].answer = call.generated[1]
              /\ call.response[1].document_name = Some(call.chunks[1].filename)
              /\ Range(call.response[1].sources) = Filenames(call.chunks)
              /\ NoDuplicates(call.response[1].sources)

\* C11: the answer is the model's text, document_name the filename of the first
\* retrieved chunk, and sources holds every distinct non-empty filename of the
\* retrieved chunks once and nothing else (a chunk whose filename is empty gives
\* no source).
C11_SourcesAreNonEmptyFilenames ==
    \A q \in QueryIds :
        LET call == queries[q]
        IN  Answered(call) =>
              /\ call.response # None
              /\ call.response[1].answer = call.generated[1]
              /\ call.response[1].document_name = Some(call.chunks[1].filename)
              /\ Range(call.response[1].sources) = Filenames(call.chunks) \ {""}
              /\ NoDuplicates(call.response[1].sources)

\* three chunks of two files were retrieved: two sources
C11_Witness ==
    \E q \in QueryIds :
        /\ Answered(queries[q])
        /\ Len(queries[q].chunks) = 3
        /\ Len(queries[q].response[1].sources) = 2
        /\ queries[q].response[1].document_name = Some("guia.pdf")

\* C12: when the query embedding, the similarity search or the answer generation
\* raises, the query is still answered: with the fixed generic failure answer and an
\* empty source list, and no field of the response contains the error's text.
C12_QueryFailureIsGeneric ==
    \A q \in QueryIds :
        LET call == queries[q]
        IN  call.raised # <<>> =>
              /\ call.pc = "done"
              /\ call.response # None
              /\ call.response[1].answer = ErrorResponse.answer
              /\ call.response[1].sources = <<>>
              /\ \A n \in 1..Len(call.raised) :
                    /\ ~In(call.raised[n], call.response[1].answer)
                    /\ \A m \in 1..Len(call.response[1].document_name) :
                          ~In(call.raised[n], call.response[1].document_name[m])

\* the generative model was called with a context and raised
C12_Witness ==
    \E q \in QueryIds :
        /\ queries[q].generate_calls # <<>>
        /\ queries[q].generated = <<>>
        /\ queries[q].raised # <<>>
        /\ queries[q].pc = "done"

\* a response carries the text of the exception that produced it
CarriesExceptionText(response) ==
    response.exception # None /\ In(response.exception[1], response.message)

\* C13: with DEBUG false no response at the API boundary carries the internal
\* exception text: neither the detail of an error response of the query, process-pdf,
\* process-batch and stats handlers, nor the content of the exception handler's
\* response, nor the error_message of a ProcessingStatus that ingestion returned.
C13_ErrorTextOnlyWhenDebug ==
    settings.DEBUG
    \/ /\ \A n \in 1..Len(http_responses) : ~CarriesExceptionText(http_responses[n])
       /\ \A status \in ReturnedStatuses : status.error_message = None

(***************************************************************************)
(* TextChunker called on its own, on texts, document types, page counts    *)
(* and sizes chosen by the caller.                                         *)
(***************************************************************************)
LegalTypes == {"ley", "ordenanza", "decreto", "reglamento"}

WholeTypes == {"formulario", "guia", "documento_general"}

ChunkerTexts ==
    {"", " \n\n ",
     "ARTICULO 1.- Uno. ARTICULO 2.- Dos.",
     "LEY 1\n\nArtículo 1º.- Uno.\n\nartículo 2 - Dos. Tres.",
     "Artículo 1.- Solo uno.\n\nFin.",
     "Uno dos.\n\nTres.\n \nCuatro cinco.\n\nSeis.",
     "Aa bb cc.  Dd ee! Ff gg hh? Ii.\n\nJj.",
     "abcdefghijklmnopqrstuvwxyzabcdefgh. Fin.",
     "Bb.\n\nBb.\n\nBb.",
     "Uno dos t.\n\nCuatro ci.",
     "Aaa bb cc. Ddd ee ff.",
     "Aaaa bbb.\n\nCc.\n\nDd.\n\nEe ff gg.\n\nHh ii jj kk. Ll.",
     "Uno.\n\nDos tres cuatro.\n\nCinco seis siete.",
     "Uno.\t dos.\r\n\r\ntres-\ncuatro.  \n",
     "Sin marcas"}

ChunkerTypes == LegalTypes \cup WholeTypes

ChunkerPages == {1, 5, 6}

ChunkSizes == {10, 20, RAG_CHUNK_SIZE}

Overlaps == {0, RAG_CHUNK_OVERLAP}

ChunkerInit ==
    /\ documents = <<>>
    /\ document_chunks = <<>>
    /\ tasks = [t \in Tasks |-> IdleTask]
    /\ queries = [q \in QueryIds |-> IdleQuery]
    /\ running = 0
    /\ settings = DefaultSettings
    /\ http_responses = <<>>
    /\ handles = NoHandles
    /\ detector = NoCall
    /\ \E text \in ChunkerTexts, document_type \in ChunkerTypes, num_pages \in ChunkerPages,
          chunk_size \in ChunkSizes, overlap \in Overlaps :
            chunker = [pc |-> "call", fn |-> "", text |-> text,
                       document_type |-> document_type, num_pages |-> num_pages,
                       chunk_size |-> chunk_size, overlap |-> overlap, cleaned |-> "",
                       segments |-> <<>>]

\* chunks = self.chunker.chunk_text(text, document_type, num_pages, chunk_size, overlap)
CallChunkText ==
    /\ chunker.pc = "call"
    /\ chunker' = [chunker EXCEPT
           !.pc = "done", !.fn = "chunk_text",
           !.segments = chunk_text(chunker.text, chunker.document_type, chunker.num_pages,
                                   chunker.chunk_size, chunker.overlap)]
    /\ UNCHANGED <<documents, document_chunks, tasks, queries, running, settings,
                   http_responses, detector, handles>>

\* TextChunker._chunk_by_paragraphs(text, chunk_size, overlap)
CallChunkByParagraphs ==
    /\ chunker.pc = "call"
    /\ chunker' = [chunker EXCEPT
           !.pc = "done", !.fn = "_chunk_by_paragraphs",
           !.segments = _chunk_by_paragraphs(chunker.text, chunker.chunk_size,
                                             chunker.overlap)]
    /\ UNCHANGED <<documents, document_chunks, tasks, queries, running, settings,
                   http_responses, detector, handles>>

\* the path of process_pdf from the extracted page texts to the chunks:
\* text = self._clean_text(text), then chunks = self.chunker.chunk_text(text, ...)
CallCleanAndChunk ==
    /\ chunker.pc = "call"
    /\ chunker' = [chunker EXCEPT
           !.pc = "done", !.fn = "process_pdf",
           !.cleaned = _clean_text(chunker.text),
           !.segments = chunk_text(_clean_text(chunker.text), chunker.document_type,
                                   chunker.num_pages, chunker.chunk_size, chunker.overlap)]
    /\ UNCHANGED <<documents, document_chunks, tasks, queries, running, settings,
                   http_responses, detector, handles>>

\* TextChunker._split_by_sentences(text, max_size)
CallSplitBySentences ==
    /\ chunker.pc = "call"
    /\ chunker' = [chunker EXCEPT
           !.pc = "done", !.fn = "_split_by_sentences",
           !.segments = _split_by_sentences(chunker.text, chunker.chunk_size)]
    /\ UNCHANGED <<documents, document_chunks, tasks, queries, running, settings,
                   http_responses, detector, handles>>

ChunkerNext ==
    CallChunkText \/ CallChunkByParagraphs \/ CallCleanAndChunk \/ CallSplitBySentences

SpecChunk == ChunkerInit /\ [][ChunkerNext]_vars

\* chunk_text has returned
ChunkTextReturned == chunker.pc = "done" /\ chunker.fn = "chunk_text"

\* _chunk_by_paragraphs has returned, called on its own or by chunk_text
ParagraphsReturned == chunker.pc = "done" /\ chunker.fn = "_chunk_by_paragraphs"

\* another page count on the other side of the small-document limit
OtherPages(num_pages) == IF num_pages <= 5 THEN 6 ELSE 1

\* C14: for num_pages <= 5 and a document type among formulario, guia and
\* documento_general, chunk_text returns exactly one segment, the input text; for a
\* legal type the page count does not decide the result: it is what chunk_text returns
\* for the same text with a page count on the other side of the limit, and it is the
\* single whole text only if the article and paragraph strategies give that.
C14_SmallDocumentKeptWhole ==
    ChunkTextReturned =>
        /\ (chunker.num_pages <= 5 /\ chunker.document_type \in WholeTypes)
              => chunker.segments = <<chunker.text>>
        /\ chunker.document_type \in LegalTypes
              => /\ chunker.segments =
                       chunk_text(chunker.text, chunker.document_type,
                                  OtherPages(chunker.num_pages), chunker.chunk_size,
                                  chunker.overlap)
                 /\ chunker.segments \in
                       {_chunk_by_articles(chunker.text),
                        _chunk_by_paragraphs(chunker.text, chunker.chunk_size,
                                             chunker.overlap)}

C14_Witness ==
    /\ ChunkTextReturned
    /\ chunker.num_pages <= 5
    /\ chunker.document_type = "ley"
    /\ Len(chunker.segments) > 1

\* the characters of s that are not whitespace, in order
RECURSIVE NonSpaceFrom(_, _)
NonSpaceFrom(s, i) ==
    IF i > Len(s) THEN ""
    ELSE (IF IsSpace(Char(s, i)) THEN "" ELSE Char(s, i)) \o NonSpaceFrom(s, i + 1)

NonSpace(s) == NonSpaceFrom(s, 1)

\* s begins with prefix
StartsWith(s, prefix) == Len(s) >= Len(prefix) /\ SubSeq(s, 1, Len(prefix)) = prefix

\* the article markers of a text, in order
Markers(text) == re_findall(ArticleMatches(text, 1), text)

\* chunk_text has returned for a document of a legal type with two markers or more
TwoMarkers ==
    /\ ChunkTextReturned
    /\ chunker.document_type \in LegalTypes
    /\ Len(Markers(chunker.text)) >= 2

\* C15: a document of a legal type with two article markers or more gives one segment
\* per marker, the n-th segment beginning with the text of the n-th marker, and the
\* segments read in order are the whole document (whitespace apart): no gap, no overlap.
C15_OneSegmentPerMarkerCoveringAll ==
    TwoMarkers =>
        /\ Len(chunker.segments) = Len(Markers(chunker.text))
        /\ \A n \in 1..Len(chunker.segments) :
              StartsWith(chunker.segments[n], Markers(chunker.text)[n])
        /\ NonSpace(join("", chunker.segments)) = NonSpace(chunker.text)

\* what holds instead: one segment per marker, each beginning with its marker, the
\* segments covering the document from its first marker on
C15_SegmentsCoverFromFirstMarker ==
    TwoMarkers =>
        /\ Len(chunker.segments) = Len(Markers(chunker.text))
        /\ \A n \in 1..Len(chunker.segments) :
              StartsWith(chunker.segments[n], Markers(chunker.text)[n])
        /\ NonSpace(join("", chunker.segments))
             = NonSpace(SubSeq(chunker.text, ArticleMatches(chunker.text, 1)[1][1],
                               Len(chunker.text)))

\* chunk_text has returned for a document of a legal type with one marker at most
OneMarkerAtMost ==
    /\ ChunkTextReturned
    /\ chunker.document_type \in LegalTypes
    /\ Len(Markers(chunker.text)) <= 1

\* C16: for a document of a legal type with no article marker or exactly one,
\* chunk_text returns what _chunk_by_paragraphs returns for the text and the given
\* maximum size, whatever the page count.
C16_FewMarkersFallBackToParagraphs ==
    OneMarkerAtMost =>
        chunker.segments =
            _chunk_by_paragraphs(chunker.text, chunker.chunk_size, chunker.overlap)

C16_Witness ==
    /\ OneMarkerAtMost
    /\ Len(Markers(chunker.text)) = 1
    /\ chunker.num_pages <= 5
    /\ Len(chunker.segments) > 1

\* the paragraphs _chunk_by_paragraphs finds in a text, and the sentences
\* _split_by_sentences finds in a paragraph
Paragraphs(text) ==
    LET parts == re_split(ParagraphBreaks(text, 1), text)
    IN  SelectSeq([k \in 1..Len(parts) |-> strip(parts[k])], LAMBDA p : p # "")

Sentences(paragraph) == re_split(SentenceBreaks(paragraph, 1), paragraph)

\* the two pieces of every sentence of the text longer than max_size
HardSplitPieces(text, max_size) ==
    UNION {UNION {{SubSeq(sentence, 1, max_size),
                   SubSeq(sentence, max_size + 1, Len(sentence))} :
                     sentence \in {x \in Range(Sentences(paragraph)) : Len(x) > max_size}} :
              paragraph \in Range(Paragraphs(text))}

\* C17: every segment _chunk_by_paragraphs returns is at most max_chunk_size characters
\* long, except a segment that is a piece of a single sentence longer than
\* max_chunk_size.
C17_SegmentsWithinMaxSize ==
    ParagraphsReturned =>
        \A n \in 1..Len(chunker.segments) :
            \/ Len(chunker.segments[n]) <= chunker.chunk_size
            \/ chunker.segments[n] \in HardSplitPieces(chunker.text, chunker.chunk_size)

\* segment n begins with the paragraph carried over from segment n - 1: the segment
\* before it was made of more than one paragraph and its last paragraph opens this one
Carried(segments, n) ==
    /\ n > 1
    /\ Len(Paragraphs(segments[n - 1])) > 1
    /\ StartsWith(segments[n],
                  Paragraphs(segments[n - 1])[Len(Paragraphs(segments[n - 1]))] \o "\n\n")

\* segment n without the paragraph carried over into it
Uncarried(segments, n) ==
    IF Carried(segments, n)
    THEN SubSeq(segments[n],
                Len(Paragraphs(segments[n - 1])[Len(Paragraphs(segments[n - 1]))]) + 3,
                Len(segments[n]))
    ELSE segments[n]

\* C18: the segments _chunk_by_paragraphs returns, read in order, each carried-over
\* paragraph counted once and whitespace ignored, are the paragraphs of the input in
\* order: nothing dropped, nothing reordered, nothing invented.
C18_SegmentsReproduceParagraphs ==
    ParagraphsReturned =>
        NonSpace(join("", [n \in 1..Len(chunker.segments) |->
                              Uncarried(chunker.segments, n)]))
          = NonSpace(join("", Paragraphs(chunker.text)))

C18_Witness ==
    /\ ParagraphsReturned
    /\ \E n \in 1..Len(chunker.segments) : Carried(chunker.segments, n)
    /\ Len(Paragraphs(chunker.text)) >= 3

\* a paragraph longer than the maximum was split by sentences
C18_WitnessSentences ==
    /\ ParagraphsReturned
    /\ \E p \in Range(Paragraphs(chunker.text)) :
          Len(p) > chunker.chunk_size /\ Len(Sentences(p)) > 1
    /\ Len(chunker.segments) > 2

\* C19: whatever the text, the document type, the page count and the maximum size,
\* every segment chunk_text returns is non-empty after trimming.
C19_SegmentsNonEmpty ==
    ChunkTextReturned =>
        \A n \in 1..Len(chunker.segments) : strip(chunker.segments[n]) # ""

\* what holds instead: the segments of a text that is not blank are not blank
C19_SegmentsOfTextNonEmpty ==
    (ChunkTextReturned /\ strip(chunker.text) # "") =>
        /\ chunker.segments # <<>>
        /\ \A n \in 1..Len(chunker.segments) : strip(chunker.segments[n]) # ""

(***************************************************************************)
(* DocumentTypeDetector.detect called on its own, on filenames and texts   *)
(* chosen by the caller.                                                   *)
(***************************************************************************)
DetectorFilenames ==
    {"formato_licencia_bodega.pdf", "FORMATO_LEY_Ordenanza.PDF", "Solicitud_Ambulatorio.pdf",
     "formulario_funcionamiento.pdf", "Formulario.pdf", "ley_27972.pdf",
     "LEY_ORGANICA_MUNICIPALIDADES.PDF", "dl_1200_ley.pdf", "Ordenanza_Decreto.pdf",
     "decreto_reglamento.pdf", "Reglamento_Guia.pdf", "TRIPTICO.pdf", "guia_tramite.pdf",
     "doc.pdf", ""}

DetectorTexts ==
    {"", "Ley N° 27972 de municipalidades", "LEY Nº 1200", "La ORDENANZA municipal",
     "Decreto de alcaldía y reglamento", "REGLAMENTO interno", "Licencia para BODEGA",
     "comercio ambulatorio según ordenanza", "guia del formulario",
     "Solicito LICENCIA de funcionamiento"}

DetectorInit ==
    /\ documents = <<>>
    /\ document_chunks = <<>>
    /\ tasks = [t \in Tasks |-> IdleTask]
    /\ queries = [q \in QueryIds |-> IdleQuery]
    /\ running = 0
    /\ settings = DefaultSettings
    /\ http_responses = <<>>
    /\ handles = NoHandles
    /\ chunker = NoCall
    /\ \E filename \in DetectorFilenames, text \in DetectorTexts :
          detector = [pc |-> "call", filename |-> filename, text |-> text,
                      result |-> None]

\* doc_info = self.detector.detect(filename, text)
CallDetect ==
    /\ detector.pc = "call"
    /\ detector' = [detector EXCEPT
           !.pc = "done", !.result = Some(detect(detector.filename, detector.text))]
    /\ UNCHANGED <<documents, document_chunks, tasks, queries, running, settings,
                   http_responses, chunker, handles>>

DetectorNext == CallDetect

SpecDetect == DetectorInit /\ [][DetectorNext]_vars

\* the seven rules in the order of the claim: the type and category each gives, and
\* whether it matches a filename and a text, letter case apart
RuleTypes ==
    <<"formulario", "ley", "ordenanza", "decreto", "reglamento", "guia", "documento_general">>

RuleCategories ==
    <<"comercio", "normativa", "normativa", "normativa", "normativa", "informacion", "general">>

RuleMatches(n, filename, text) ==
    LET f == lower(filename)
        t == lower(text)
    IN  CASE n = 1 -> In("formato", f) \/ In("formulario", f) \/ In("solicitud", f)
          [] n = 2 -> In("ley", f) \/ In("ley n°", t) \/ In("ley nº", t)
          [] n = 3 -> In("ordenanza", f) \/ In("ordenanza", t)
          [] n = 4 -> In("decreto", f) \/ In("decreto", t)
          [] n = 5 -> In("reglamento", f) \/ In("reglamento", t)
          [] n = 6 -> In("triptico", f) \/ In("guia", f)
          [] OTHER -> TRUE

FirstRule(filename, text) ==
    CHOOSE n \in 1..7 :
        /\ RuleMatches(n, filename, text)
        /\ \A m \in 1..(n - 1) : ~RuleMatches(m, filename, text)

\* C20: detect returns the result of the first of its seven rules (form, law,
\* ordenanza, decreto, reglamento, guia, fallback) that matches, letter case apart; a
\* filename containing formato, formulario or solicitud gives type formulario and
\* category comercio, with "bodega" among the keywords when bodega occurs in the
\* filename or the text, also when the law or the ordenanza rule would match.
C20_FirstMatchingRuleWins ==
    detector.pc = "done" =>
        LET result == detector.result[1]
            n      == FirstRule(detector.filename, detector.text)
        IN  /\ result.type = RuleTypes[n]
            /\ result.category = RuleCategories[n]
            /\ RuleMatches(1, detector.filename, detector.text) =>
                  /\ result.type = "formulario"
                  /\ result.category = "comercio"
                  /\ (In("bodega", lower(detector.filename))
                        \/ In("bodega", lower(detector.text)))
                       => "bodega" \in Range(result.metadata.palabras_clave)
            /\ detector.filename = "formato_licencia_bodega.pdf" =>
                  /\ result.type = "formulario"
                  /\ result.category = "comercio"
                  /\ "bodega" \in Range(result.metadata.palabras_clave)

\* a form whose filename also matches the law rule and whose text names bodega
C20_Witness ==
    /\ detector.pc = "done"
    /\ detector.filename = "FORMATO_LEY_Ordenanza.PDF"
    /\ detector.text = "Licencia para BODEGA"
    /\ detector.result[1].type = "formulario"
    /\ RuleMatches(2, detector.filename, detector.text)

\* detect has returned for a document the form rule matches
FormDetected ==
    /\ detector.pc = "done"
    /\ RuleMatches(1, detector.filename, detector.text)

\* C21: for a document the form rule matches, each domain keyword (bodega,
\* ambulatorio, licencia, funcionamiento) is looked for in the filename and in the
\* text alike: the procedure name and the keyword list are those the same words would
\* select if they all stood in the filename.
C21_FormKeywordInTextAsInFilename ==
    FormDetected =>
        detector.result[1].metadata
          = _detect_form(lower(detector.filename) \o " " \o lower(detector.text), "").metadata

\* what holds instead: bodega and ambulatorio are looked for in filename and text,
\* licencia and funcionamiento in the filename only
C21_LicenciaInFilenameOnly ==
    FormDetected =>
        LET f == lower(detector.filename)
            t == lower(detector.text)
            nombre_tramite ==
                IF In("bodega", f) \/ In("bodega", t)
                THEN "Licencia Provisional de Funcionamiento para Bodegas"
                ELSE IF In("ambulatorio", f) \/ In("ambulatorio", t)
                THEN "Autorización de Comercio Ambulatorio"
                ELSE IF In("licencia", f) \/ In("funcionamiento", f)
                THEN "Licencia de Funcionamiento"
                ELSE "Formulario General"
        IN  detector.result[1].metadata.nombre_tramite = nombre_tramite

(***************************************************************************)
(* The singleton accessors.  An accessor and the constructors it calls     *)
(* hold no await: a handler runs them in one step of the event loop.       *)
(***************************************************************************)
\* an object of a class is constructed: it is the next object of the process
Construct(h, class) ==
    [h EXCEPT !.constructed = Append(@, [class |-> class, id |-> Len(@) + 1])]

\* the object constructed last
Newest(h) == Some(h.constructed[Len(h.constructed)].id)

\* mutant of get_embedding_service: no test of the handle
get_embedding_service_unguarded(h) ==
    [Construct(h, "EmbeddingService") EXCEPT
        !._embedding_service = Newest(Construct(h, "EmbeddingService"))]

\* if _embedding_service is None: _embedding_service = EmbeddingService()
get_embedding_service(h) ==
    IF h._embedding_service = None
    THEN [Construct(h, "EmbeddingService") EXCEPT
            !._embedding_service = Newest(Construct(h, "EmbeddingService"))]
    ELSE h

\* RAGService.__init__ and PDFProcessor.__init__: self.embedding_service =
\* get_embedding_service(), then the object exists
RAGService(h) == Construct(get_embedding_service(h), "RAGService")

PDFProcessor(h) == Construct(get_embedding_service(h), "PDFProcessor")

\* if _rag_service is None: _rag_service = RAGService()
get_rag_service(h) ==
    IF h._rag_service = None
    THEN [RAGService(h) EXCEPT !._rag_service = Newest(RAGService(h))]
    ELSE h

\* if _pdf_processor is None: _pdf_processor = PDFProcessor()
get_pdf_processor(h) ==
    IF h._pdf_processor = None
    THEN [PDFProcessor(h) EXCEPT !._pdf_processor = Newest(PDFProcessor(h))]
    ELSE h

\* the routes whose handler begins with an accessor
AccessorRoutes == {"/query", "/process-pdf", "/process-batch"}

Used(h, route) == [h EXCEPT !.uses = Append(@, route)]

\* a handler runs up to its first await: rag_service = get_rag_service() in query_rag,
\* pdf_processor = get_pdf_processor() in process_pdf and process_batch.  With
\* ok = FALSE EmbeddingService.__init__ raises: nothing is assigned.
HandlerUses(route, ok) ==
    /\ running = 0
    /\ Len(handles.uses) < MaxUses
    /\ ok \/ handles._embedding_service = None
    /\ handles' = IF ~ok THEN Used(handles, route)
                  ELSE IF route = "/query" THEN get_rag_service(Used(handles, route))
                  ELSE get_pdf_processor(Used(handles, route))
    /\ UNCHANGED <<documents, document_chunks, tasks, queries, running, settings,
                   http_responses, chunker, detector>>

SingletonInit ==
    /\ documents = <<>>
    /\ document_chunks = <<>>
    /\ tasks = [t \in Tasks |-> IdleTask]
    /\ queries = [q \in QueryIds |-> IdleQuery]
    /\ running = 0
    /\ settings = DefaultSettings
    /\ http_responses = <<>>
    /\ chunker = NoCall
    /\ detector = NoCall
    /\ handles = NoHandles

SingletonNext == \E route \in AccessorRoutes, ok \in BOOLEAN : HandlerUses(route, ok)

SpecSingleton == SingletonInit /\ [][SingletonNext]_vars

HandleNames == {"_embedding_service", "_rag_service", "_pdf_processor"}

Classes == {"EmbeddingService", "RAGService", "PDFProcessor"}

\* at most one object of each class has been constructed
ConstructedOnce ==
    \A class \in Classes :
        Cardinality({n \in 1..Len(handles.constructed) :
                        handles.constructed[n].class = class}) <= 1

\* a handle that is set keeps its object
HandleKept ==
    \A name \in HandleNames : handles[name] # None => handles'[name] = handles[name]

\* C22: each singleton (embedding service, RAG service, PDF processor) is constructed
\* at most once in the process, however the first uses of the accessors by concurrent
\* handlers interleave, and a handle that has been set is never assigned again.
C22_SingletonsConstructedOnce == []ConstructedOnce /\ [][HandleKept]_vars

\* both services were used again after their first use, by different handlers
C22_Witness ==
    /\ handles._embedding_service # None
    /\ handles._rag_service # None
    /\ handles._pdf_processor # None
    /\ Len(handles.constructed) = 3
    /\ Len(handles.uses) = MaxUses

\* the keyword sets of the special commands and their answers, in the order help,
\* FAQ, RAG help, topics
CannedSets == <<HelpKeywords, FaqKeywords, RagHelpKeywords, TopicsKeywords>>

CannedAnswers == <<HelpResponse, FaqResponse, RagHelpResponse, TopicsResponse>>

\* the sets a query matches
MatchingSets(query) == {n \in 1..4 : AnyIn(CannedSets[n], strip(lower(query)))}

\* the least element of a non-empty set of numbers
Least(S) == CHOOSE n \in S : \A m \in S : n <= m

\* C23: the special commands are tried in the order help, FAQ, RAG help, topics: a
\* query that matches one set or several is answered with the answer of the earliest
\* set it matches.
C23_EarliestCannedSetWins ==
    \A q \in QueryIds :
        LET call == queries[q]
        IN  (call.pc # "idle" /\ MatchingSets(call.query) # {}) =>
              call.response = Some(CannedAnswers[Least(MatchingSets(call.query))])

\* a query that matches the help and the FAQ set, and one that matches the RAG help
\* and the topics set, have been answered
C23_Witness ==
    \E q \in QueryIds :
        /\ queries[q].pc = "done"
        /\ queries[q].query = "opciones de preguntas frecuentes"
        /\ MatchingSets(queries[q].query) = {1, 2}
        /\ queries[q].response = Some(HelpResponse)

\* the options the help answer tells the user to write, and the answer of each
AdvertisedOptions ==
    {<<"Preguntas Frecuentes", FaqResponse>>,
     <<"Ayuda con el RAG", RagHelpResponse>>,
     <<"Temas disponibles", TopicsResponse>>}

\* C24: writing one of the three options of the help answer ("Preguntas Frecuentes",
\* "Ayuda con el RAG", "Temas disponibles") gives that option's own answer: the FAQ
\* answer, the RAG usage guide (document_name "Guía de Uso del RAG"), the topics
\* catalogue.
C24_AdvertisedOptionsAnswered ==
    \A q \in QueryIds :
        \A option \in AdvertisedOptions :
            (queries[q].pc # "idle" /\ queries[q].query = option[1]) =>
                queries[q].response = Some(option[2])

\* the closings of segments in the call of _chunk_by_paragraphs that has returned
Closings == ParagraphLoopEnd(chunker.text, chunker.chunk_size).closed

\* the closing e carries a paragraph over: the closed segment held more than one
\* paragraph and was closed because the next paragraph would overflow it
CarriesOver(e) == e.why = "overflow" /\ Len(e.held) > 1

\* C25: in _chunk_by_paragraphs, when a segment built from more than one paragraph is
\* closed because the next paragraph would exceed max_chunk_size, the next segment
\* begins with the last paragraph of the closed segment followed by the next
\* paragraph; when the closed segment held one paragraph, or was closed because an
\* oversized paragraph follows, the next segment begins with what follows and nothing
\* is carried over.
C25_OverlapCarriesLastParagraph ==
    ParagraphsReturned =>
        \A n \in 1..Len(Closings) :
            LET e == Closings[n]
            IN  /\ e.at < Len(chunker.segments)
                /\ chunker.segments[e.at] = join("\n\n", e.held)
                /\ CarriesOver(e) =>
                      StartsWith(chunker.segments[e.at + 1],
                                 e.held[Len(e.held)] \o "\n\n" \o e.next)
                /\ (e.why = "overflow" /\ Len(e.held) = 1) =>
                      StartsWith(chunker.segments[e.at + 1], e.next)
                /\ e.why = "oversized" =>
                      chunker.segments[e.at + 1]
                        = _split_by_sentences(e.next, chunker.chunk_size)[1]

\* one call in which a segment of one paragraph, a segment of several paragraphs and
\* a segment followed by an oversized paragraph were closed
C25_Witness ==
    /\ ParagraphsReturned
    /\ \E n \in 1..Len(Closings) : CarriesOver(Closings[n])
    /\ \E n \in 1..Len(Closings) :
          Closings[n].why = "overflow" /\ Len(Closings[n].held) = 1
    /\ \E n \in 1..Len(Closings) : Closings[n].why = "oversized"

\* C26: whenever process_pdf returns status COMPLETED, under any interleaving with
\* other ingestion calls and after any earlier failed ingestion of the same content,
\* the Document the returned document_id names is marked processed and has chunk rows.
C26_CompletedMeansIngested ==
    \A t \in Tasks :
        (tasks[t].pc = "return" /\ tasks[t].status.status = "completed") =>
            \E d \in Range(documents) :
                /\ d.id = tasks[t].status.document_id
                /\ d.processed
                /\ ChunksOf(document_chunks, d.id) # <<>>

\* another call is suspended in its embedding requests for the Document named by a
\* call that returns COMPLETED
C26_ConcurrentDuplicate ==
    \E t \in Tasks, u \in Tasks :
        /\ tasks[t].pc = "return"
        /\ tasks[t].status.status = "completed"
        /\ tasks[t].failed_at = None
        /\ u # t
        /\ tasks[u].pc \notin {"idle", "done", "return"}
        /\ tasks[u].document_id = tasks[t].status.document_id
        /\ \A r \in ReturnedStatuses : r.status # "error"

\* the values process_pdf gives to status.progress, in order
ProgressValues == <<0, 20, 30, 40, 50, 80, 100>>

\* a status process_pdf returns: COMPLETED or ERROR, progress 100 exactly with COMPLETED
FinalStatus(status) ==
    /\ status.status \in {"completed", "error"}
    /\ status.progress = 100 <=> status.status = "completed"

\* the status of every call: its progress is one of the values; when the call returns,
\* chunks_created is set exactly when all nine steps ran without raising, and it is
\* then the number of chunk rows of the call's Document
StatusInvariant ==
    /\ \A r \in ReturnedStatuses : FinalStatus(r)
    /\ \A t \in Tasks :
          LET task == tasks[t]
          IN  /\ task.status.progress \in Range(ProgressValues)
              /\ task.pc = "return" =>
                    /\ FinalStatus(task.status)
                    /\ task.status.chunks_created # None
                          <=> (task.steps = StepOrder /\ task.failed_at = None)
                    /\ task.status.chunks_created # None =>
                          /\ ChunksOf(task.pre_chunks, task.document_id) = <<>>
                          /\ task.status.chunks_created
                               = Some(Len(ChunksOf(document_chunks, task.document_id)))

\* a step of a call in progress never lowers its progress
ProgressStep ==
    \A t \in Tasks :
        tasks[t].pc \notin {"idle", "loop", "done", "return"} =>
            tasks'[t].status.progress >= tasks[t].status.progress

\* C27: within one process_pdf call the progress only increases, through the values
\* 0, 20, 30, 40, 50, 80, 100; the returned status is COMPLETED or ERROR, never
\* pending or processing; its progress is 100 exactly when it is COMPLETED; and
\* chunks_created is set only by a full ingestion that succeeded (not by the early
\* return for known content), where it is the number of chunk rows written.
C27_ProgressAndFinalStatus == []StatusInvariant /\ [][ProgressStep]_vars

\* one call returned early for known content and another returns after a full
\* ingestion of two chunks or more
C27_Witness ==
    /\ \E r \in ReturnedStatuses :
          r.status = "completed" /\ r.chunks_created = None /\ r.progress = 100
    /\ \E t \in Tasks :
          /\ tasks[t].pc = "return"
          /\ tasks[t].status.chunks_created # None
          /\ Len(tasks[t].chunks) >= 2

\* the chunks of a cleaned text have been made, as in process_pdf
CleanedAndChunked == chunker.pc = "done" /\ chunker.fn = "process_pdf"

\* no newline, and no two whitespace characters in a row
SingleSpaced(s) ==
    /\ \A i \in 1..Len(s) : IsSpace(Char(s, i)) => Char(s, i) = " "
    /\ \A i \in 1..(Len(s) - 1) : ~(Char(s, i) = " " /\ Char(s, i + 1) = " ")

\* C28: the text ingestion passes to the chunker (the output of _clean_text) has no
\* newline and no whitespace run longer than one character, so the paragraph strategy
\* sees one paragraph at most: no segment is closed to start another (no accumulation
\* of paragraphs, no carried paragraph), and the segments are the whole text, its
\* sentence split (only when the text is longer than the chunk size) or its articles.
C28_CleanTextHasOneParagraph ==
    CleanedAndChunked =>
        /\ SingleSpaced(chunker.cleaned)
        /\ Len(Paragraphs(chunker.cleaned)) <= 1
        /\ ParagraphLoopEnd(chunker.cleaned, chunker.chunk_size).closed = <<>>
        /\ \A n \in 1..Len(chunker.segments) : ~In("\n", chunker.segments[n])
        /\ \/ chunker.segments = <<chunker.cleaned>>
           \/ /\ chunker.document_type \in LegalTypes
              /\ Len(chunker.segments) > 1
              /\ chunker.segments = _chunk_by_articles(chunker.cleaned)
           \/ /\ Len(chunker.cleaned) > chunker.chunk_size
              /\ chunker.segments = _split_by_sentences(chunker.cleaned, chunker.chunk_size)

\* page texts of three paragraphs or more, longer than the chunk size once cleaned,
\* are split by sentences
C28_Witness ==
    /\ CleanedAndChunked
    /\ Len(Paragraphs(chunker.text)) >= 3
    /\ Len(chunker.cleaned) > chunker.chunk_size
    /\ Len(chunker.segments) > 1
    /\ chunker.segments = _split_by_sentences(chunker.cleaned, chunker.chunk_size)

\* _split_by_sentences has returned
SentencesReturned == chunker.pc = "done" /\ chunker.fn = "_split_by_sentences"

\* the two pieces of every sentence longer than max_size follow each other in the
\* segments and give the sentence back
PiecesGiveSentence ==
    \A sentence \in Range(Sentences(chunker.text)) :
        Len(sentence) > chunker.chunk_size =>
            \E n \in 1..(Len(chunker.segments) - 1) :
                chunker.segments[n] \o chunker.segments[n + 1] = sentence

\* C29: for every text and max_size >= 1 every segment _split_by_sentences returns is
\* at most max_size characters long, the pieces of a force-split sentence included,
\* and the pieces of a force-split sentence concatenate back to the sentence.
C29_SentenceSegmentsWithinMaxSize ==
    SentencesReturned =>
        /\ \A n \in 1..Len(chunker.segments) :
              Len(chunker.segments[n]) <= chunker.chunk_size
        /\ PiecesGiveSentence

\* what holds instead: the pieces give the sentence back, the first piece is max_size
\* characters long
C29_PiecesConcatenateBack == SentencesReturned => PiecesGiveSentence

\* the embedding requests of every call: those issued are the first chunks in order,
\* one outstanding at most; the vectors received are those of the first chunks in
\* order; a delay is awaited only between two requests; after the loop there is one
\* vector per chunk; every chunk row stored holds the vector of its own text
EmbeddingsInOrder ==
    /\ \A t \in Tasks :
          LET task == tasks[t]
          IN  /\ task.embed_requests = SubSeq(task.chunks, 1, Len(task.embed_requests))
              /\ task.embeddings
                   = [n \in 1..Len(task.embeddings) |-> Embedding(task.chunks[n])]
              /\ Len(task.embeddings) <= Len(task.embed_requests)
              /\ Len(task.embed_requests) <= Len(task.embeddings) + 1
              /\ task.pc = "embed_wait" =>
                    Len(task.embed_requests) = Len(task.embeddings) + 1
              /\ task.pc = "sleep_wait" =>
                    /\ Len(task.embed_requests) = Len(task.embeddings)
                    /\ Len(task.embeddings) < Len(task.chunks)
              /\ task.pc \in {"insert_chunks", "mark"} =>
                    Len(task.embeddings) = Len(task.chunks)
    /\ \A n \in 1..Len(document_chunks) :
          document_chunks[n].embedding = Embedding(document_chunks[n].chunk_text)

\* a step that issues a request: every earlier request was answered, and unless the
\* request is the first of its call the delay after the answer has just elapsed
RequestStep ==
    \A t \in Tasks :
        Len(tasks'[t].embed_requests) > Len(tasks[t].embed_requests) =>
            /\ Len(tasks[t].embed_requests) < Len(tasks[t].chunks)
            /\ tasks'[t].embed_requests
                 = Append(tasks[t].embed_requests,
                          tasks[t].chunks[Len(tasks[t].embed_requests) + 1])
            /\ Len(tasks[t].embeddings) = Len(tasks[t].embed_requests)
            /\ tasks[t].pc = "embed_loop"

\* the loop is entered for a text other than the first only when the delay elapsed
DelayStep ==
    \A t \in Tasks :
        (/\ tasks'[t].pc = "embed_loop"
         /\ tasks[t].pc # "embed_loop"
         /\ tasks'[t].embeddings # <<>>
         /\ Len(tasks'[t].embeddings) < Len(tasks'[t].chunks))
            => tasks[t].pc = "sleep_wait"

\* C30: generate_batch_embeddings issues its requests one at a time in the order of
\* the texts: a request starts only after the one before it was answered and the
\* delay elapsed, and no delay follows the last answer; on success there is one vector
\* per text in the same order, so every chunk row stored holds the vector of its text.
C30_EmbeddingsSequentialAndPaired ==
    []EmbeddingsInOrder /\ [][RequestStep /\ DelayStep]_vars

\* a call embedded its two chunks, with the delay between them, and stored both rows
C30_Witness ==
    \E t \in Tasks :
        /\ tasks[t].pc = "mark"
        /\ Len(tasks[t].chunks) = 2
        /\ tasks[t].chunks[1] # tasks[t].chunks[2]
        /\ tasks[t].embed_requests = tasks[t].chunks
        /\ Len(ChunksOf(document_chunks, tasks[t].document_id)) = 2

====
